---- MODULE Spec2Model ----
(***************************************************************************)
(* Model of the peer-evaluation application (src/app.py): the identity     *)
(* resolution paths (login, select_class, join_class), the access-token    *)
(* lifecycle and the evaluation recorder (submit_evaluation), each handler *)
(* split at its store calls so that requests of different clients          *)
(* interleave at the granularity the store sees.                           *)
(***************************************************************************)
EXTENDS Integers, Sequences, FiniteSets, TLC

VARIABLES
    teachers,            \* table teachers: [id, name, email, password]
    classes,             \* table classes:  [id, name]
    teams,               \* table teams:    [id, name, class_id]
    students,            \* table students
    assignments,         \* table assignments: [id, class_id]
    access_tokens,       \* table access_tokens: [token, class_id, expires_at]
    team_evaluations,    \* table team_evaluations
    member_evaluations,  \* table member_evaluations
    nextId,              \* serial primary keys, one counter per table
    nextSecret,          \* next value of secrets.token_urlsafe
    now,                 \* the current instant, in hours
    storeUTC,            \* whether the store hands timestamps back in UTC
    season,              \* which daylight-time transition the clock crosses
    session,             \* the Flask session of each client
    cookie,              \* the device_token cookie of each client
    req,                 \* the request each client has in flight
    resp,                \* the last response each client received
    hist,                \* log of the submits that returned success
    nreq,                \* number of requests that may still begin
    inp                  \* the arguments of each client's latest request

vars == <<teachers, classes, teams, students, assignments, access_tokens,
          team_evaluations, member_evaluations, nextId, nextSecret, now,
          storeUTC, season, session, cookie, req, resp, hist, nreq, inp>>

store == <<teachers, classes, teams, students, assignments, access_tokens,
           team_evaluations, member_evaluations, nextId>>

(***************************************************************************)
(* Bounds of the model.                                                    *)
(***************************************************************************)
MaxEvalRequests == 2
MaxLoginRequests == 3
MaxTokenRequests == 2
MaxAccessRequests == 2
MaxNameRequests == 3
MaxCredRequests == 2
MaxGuestRequests == 2
MaxRetryRequests == 3
MaxAllocRequests == 2
MaxSentinelRequests == 2
MaxReloginRequests == 2
MaxReadRequests == 2
MaxAdmitRequests == 2
MaxSuffix == 4
MaxTime == 10

Clients == {"c1", "c2"}

(***************************************************************************)
(* Program constants.                                                      *)
(***************************************************************************)
EDT == -4
EST == -5
FallBack == 3
SpringForward == 3
Seasons == {"autumn", "spring"}
SessionHours == 4
LinkHours == 4

NoToken == 0
NoTime == <<>>

(***************************************************************************)
(* Time.  An aware datetime is [wall, off]: the wall-clock reading and the *)
(* UTC offset it is expressed in; an ISO-8601 string is <<wall, off>>.     *)
(***************************************************************************)
Instant(dt) == dt.wall - dt.off

\* the UTC offset of US/Eastern at instant t: in autumn daylight time ends
\* at FallBack, in spring it begins at SpringForward
utcoffset(t) ==
    IF season = "autumn" THEN (IF t < FallBack THEN EDT ELSE EST)
    ELSE (IF t < SpringForward THEN EST ELSE EDT)

get_est_now == [wall |-> now + utcoffset(now), off |-> utcoffset(now)]

isoformat(dt) == <<dt.wall, dt.off>>

parse_iso_datetime(date_str) == [wall |-> date_str[1], off |-> date_str[2]]

\* datetime.replace(tzinfo=None): the wall-clock reading alone
replace_tzinfo_None(dt) == dt.wall

\* what the store returns for a timestamp column written as date_str
store_timestamp(date_str) ==
    IF date_str = NoTime THEN NoTime
    ELSE IF storeUTC THEN <<date_str[1] - date_str[2], 0>>
    ELSE date_str

(***************************************************************************)
(* Credential verifier (werkzeug).                                         *)
(***************************************************************************)
generate_password_hash(secret) == [pbkdf2 |-> secret]

check_password_hash(pwhash, secret) == pwhash.pbkdf2 = secret

(***************************************************************************)
(* Sessions, requests and responses.                                       *)
(***************************************************************************)
NoSession == [role |-> "none", user_id |-> 0, name |-> "", class_id |-> 0,
              team_id |-> 0, created_at |-> NoTime]

Idle == [pc |-> "idle"]

Pending == [op |-> "pending"]

Response(op, status, msg) == [op |-> op, status |-> status, msg |-> msg]

Reply(c, r) ==
    /\ resp' = [resp EXCEPT ![c] = r]
    /\ req' = [req EXCEPT ![c] = Idle]

Goto(c, r) == req' = [req EXCEPT ![c] = r]

Begin(c, op, args) ==
    /\ req[c].pc = "idle"
    /\ nreq > 0
    /\ nreq' = nreq - 1
    /\ inp' = [inp EXCEPT ![c] = [op |-> op, args |-> args, n |-> nreq]]

\* str() of an id, as used by the own-team comparison
str(x) == ToString(x)

(***************************************************************************)
(* Session guards.                                                         *)
(***************************************************************************)
\* variant that subtracts the wall-clock readings
SessionTooOld_naive(s) ==
    /\ s.role = "student"
    /\ s.created_at # NoTime
    /\ replace_tzinfo_None(get_est_now)
         - replace_tzinfo_None(parse_iso_datetime(s.created_at))
           > SessionHours

SessionTooOld(s) ==
    /\ s.role = "student"
    /\ s.created_at # NoTime
    /\ Instant(get_est_now) - Instant(parse_iso_datetime(s.created_at))
           > SessionHours

login_required(s) ==
    IF s.role = "none" THEN "unauthorized"
    ELSE IF SessionTooOld(s) THEN "expired"
    ELSE "ok"

student_required(s) ==
    IF s.role # "student" THEN "unauthorized"
    ELSE IF SessionTooOld(s) THEN "expired"
    ELSE "ok"

(***************************************************************************)
(* Store helpers.  The columns created_at of the tables are left out: no   *)
(* handler modelled here reads them.                                       *)
(***************************************************************************)
Student(id, name, student_id, passcode, team_id, class_id, is_pre_added, access_expires_at, device_token) ==
    [id |-> id, name |-> name, student_id |-> student_id,
     passcode |-> passcode, team_id |-> team_id, class_id |-> class_id,
     is_pre_added |-> is_pre_added,
     access_expires_at |-> access_expires_at, device_token |-> device_token]

Bump(table) == nextId' = [nextId EXCEPT ![table] = @ + 1]

\* MemberEvaluation rows of a payload, as rows owned by team evaluation te
MemberRows(te) == {m \in member_evaluations : m.team_evaluation_id = te}

(***************************************************************************)
(* submit_evaluation (POST /api/evaluations), one action per store call.   *)
(***************************************************************************)
SubmitReq(pc, data) ==
    [op |-> "submit", pc |-> pc, data |-> data, class_id |-> 0, teachers_team |-> 0,
     evaluator_id |-> 0, todo |-> {}, cur |-> 0, te_id |-> 0, idx |-> 0]

\* the @login_required decorator in front of the handler
submit_evaluation_begin(c, data) ==
    /\ Begin(c, "submit", data)
    /\ LET auth == login_required(session[c]) IN
       IF auth = "unauthorized" THEN
           /\ resp' = [resp EXCEPT ![c] = Response("submit", 401, "Unauthorized")]
           /\ UNCHANGED <<session, req>>
       ELSE IF auth = "expired" THEN
           /\ session' = [session EXCEPT ![c] = NoSession]
           /\ resp' = [resp EXCEPT ![c] = Response("submit", 401, "Session expired")]
           /\ UNCHANGED req
       ELSE
           /\ Goto(c, SubmitReq("sub_team", data))
           /\ resp' = [resp EXCEPT ![c] = Pending]
           /\ UNCHANGED session
    /\ UNCHANGED <<store, nextSecret, now, storeUTC, season, cookie, hist>>

\* variant without the Guests check
submit_evaluation_team_no_guests_check(c) ==
    /\ req[c].pc = "sub_team"
    /\ LET r == req[c]
           g == r.data.evaluated_team_id
           found == {t \in teams : t.id = g}
       IN  IF found = {} THEN
               Reply(c, Response("submit", 500, "no rows returned"))
           ELSE IF session[c].role = "teacher" THEN
               /\ Goto(c, [r EXCEPT !.pc = "sub_teacher"])
               /\ UNCHANGED resp
           ELSE IF str(session[c].team_id) = str(g) THEN
               Reply(c, Response("submit", 403, "You cannot evaluate your own team"))
           ELSE
               /\ Goto(c, [r EXCEPT !.pc = "sub_existing",
                                    !.evaluator_id = session[c].user_id])
               /\ UNCHANGED resp
    /\ UNCHANGED <<store, nextSecret, now, storeUTC, season, session, cookie, hist, nreq, inp>>

\* the Guests check, and for a student the evaluator and the own-team check
submit_evaluation_team(c) ==
    /\ req[c].pc = "sub_team"
    /\ LET r == req[c]
           g == r.data.evaluated_team_id
           found == {t \in teams : t.id = g}
       IN  IF found = {} THEN
               Reply(c, Response("submit", 500, "no rows returned"))
           ELSE IF \E t \in found : t.name = "Guests" THEN
               Reply(c, Response("submit", 403, "Cannot evaluate the Guests group"))
           ELSE IF session[c].role = "teacher" THEN
               /\ Goto(c, [r EXCEPT !.pc = "sub_teacher"])
               /\ UNCHANGED resp
           ELSE IF str(session[c].team_id) = str(g) THEN
               Reply(c, Response("submit", 403, "You cannot evaluate your own team"))
           ELSE
               /\ Goto(c, [r EXCEPT !.pc = "sub_existing",
                                    !.evaluator_id = session[c].user_id])
               /\ UNCHANGED resp
    /\ UNCHANGED <<store, nextSecret, now, storeUTC, season, session, cookie, hist, nreq, inp>>

\* teacher: the assignment's class, then the lookup of its "Teachers" team
get_or_create_teacher_student_record_team(c) ==
    /\ req[c].pc = "sub_teacher"
    /\ LET r == req[c]
           asg == {a \in assignments : a.id = r.data.assignment_id}
       IN  IF asg = {} THEN
               Reply(c, Response("submit", 500, "no rows returned"))
           ELSE
               \E a \in asg :
                 LET tt == {t \in teams : t.class_id = a.class_id
                                          /\ t.name = "Teachers"}
                 IN  /\ UNCHANGED resp
                     /\ IF tt = {} THEN
                            Goto(c, [r EXCEPT !.pc = "sub_teacher_team_insert",
                                              !.class_id = a.class_id])
                        ELSE
                            \E t \in tt :
                              Goto(c, [r EXCEPT !.pc = "sub_teacher_student",
                                                !.class_id = a.class_id,
                                                !.teachers_team = t.id])
    /\ UNCHANGED <<store, nextSecret, now, storeUTC, season, session, cookie, hist, nreq, inp>>

get_or_create_teacher_student_record_team_insert(c) ==
    /\ req[c].pc = "sub_teacher_team_insert"
    /\ teams' = teams \cup {[id |-> nextId.teams, name |-> "Teachers",
                             class_id |-> req[c].class_id]}
    /\ Bump("teams")
    /\ Goto(c, [req[c] EXCEPT !.pc = "sub_teacher_student",
                              !.teachers_team = nextId.teams])
    /\ UNCHANGED <<teachers, classes, students, assignments, access_tokens,
                   team_evaluations, member_evaluations, nextSecret, now,
                   storeUTC, season, session, cookie, resp, hist, nreq, inp>>

\* variant that never looks for the teacher's row before inserting it
get_or_create_teacher_student_record_student_no_lookup(c) ==
    /\ req[c].pc = "sub_teacher_student"
    /\ Goto(c, [req[c] EXCEPT !.pc = "sub_teacher_student_insert"])
    /\ UNCHANGED <<store, nextSecret, now, storeUTC, season, session, cookie, resp,
                   hist, nreq, inp>>

get_or_create_teacher_student_record_student(c) ==
    /\ req[c].pc = "sub_teacher_student"
    /\ LET r == req[c]
           ts == {s \in students : s.team_id = r.teachers_team
                                   /\ s.name = session[c].name}
       IN  IF ts = {} THEN
               Goto(c, [r EXCEPT !.pc = "sub_teacher_student_insert"])
           ELSE
               \E s \in ts :
                 Goto(c, [r EXCEPT !.pc = "sub_existing", !.evaluator_id = s.id])
    /\ UNCHANGED <<store, nextSecret, now, storeUTC, season, session, cookie, resp,
                   hist, nreq, inp>>

get_or_create_teacher_student_record_student_insert(c) ==
    /\ req[c].pc = "sub_teacher_student_insert"
    /\ students' = students \cup
          {Student(nextId.students, session[c].name, "teacher",
                   generate_password_hash("teacher"), req[c].teachers_team,
                   req[c].class_id, FALSE, NoTime, NoToken)}
    /\ Bump("students")
    /\ Goto(c, [req[c] EXCEPT !.pc = "sub_existing",
                              !.evaluator_id = nextId.students])
    /\ UNCHANGED <<teachers, classes, teams, assignments, access_tokens,
                   team_evaluations, member_evaluations, nextSecret, now,
                   storeUTC, season, session, cookie, resp, hist, nreq, inp>>

\* variant that appends: the earlier bundle is never looked up
submit_evaluation_existing_append(c) ==
    /\ req[c].pc = "sub_existing"
    /\ Goto(c, [req[c] EXCEPT !.todo = {}, !.pc = "sub_insert_te"])
    /\ UNCHANGED <<store, nextSecret, now, storeUTC, season, session, cookie, resp,
                   hist, nreq, inp>>

\* the lookup of the bundle to replace
submit_evaluation_existing(c) ==
    /\ req[c].pc = "sub_existing"
    /\ LET r == req[c]
           existing == {e.id : e \in
                          {e \in team_evaluations :
                              /\ e.assignment_id = r.data.assignment_id
                              /\ e.evaluated_team_id = r.data.evaluated_team_id
                              /\ e.evaluator_student_id = r.evaluator_id}}
       IN  Goto(c, [r EXCEPT !.todo = existing,
                             !.pc = IF existing = {} THEN "sub_insert_te"
                                    ELSE "sub_delete_members"])
    /\ UNCHANGED <<store, nextSecret, now, storeUTC, season, session, cookie, resp,
                   hist, nreq, inp>>

\* variant that takes a bundle without member rows for an error
submit_evaluation_delete_members_strict(c) ==
    /\ req[c].pc = "sub_delete_members"
    /\ \E id \in req[c].todo :
         IF MemberRows(id) = {} THEN
             /\ Reply(c, Response("submit", 500, "no rows deleted"))
             /\ UNCHANGED member_evaluations
         ELSE
             /\ member_evaluations' = member_evaluations \ MemberRows(id)
             /\ Goto(c, [req[c] EXCEPT !.pc = "sub_delete_te", !.cur = id])
             /\ UNCHANGED resp
    /\ UNCHANGED <<teachers, classes, teams, students, assignments, access_tokens,
                   team_evaluations, nextId, nextSecret, now, storeUTC, season,
                   session, cookie, hist, nreq, inp>>

submit_evaluation_delete_members(c) ==
    /\ req[c].pc = "sub_delete_members"
    /\ \E id \in req[c].todo :
         /\ member_evaluations' = member_evaluations \ MemberRows(id)
         /\ Goto(c, [req[c] EXCEPT !.pc = "sub_delete_te", !.cur = id])
    /\ UNCHANGED <<teachers, classes, teams, students, assignments, access_tokens,
                   team_evaluations, nextId, nextSecret, now, storeUTC, season,
                   session, cookie, resp, hist, nreq, inp>>

submit_evaluation_delete_te(c) ==
    /\ req[c].pc = "sub_delete_te"
    /\ team_evaluations' = {e \in team_evaluations : e.id # req[c].cur}
    /\ LET rest == req[c].todo \ {req[c].cur}
       IN  Goto(c, [req[c] EXCEPT !.todo = rest,
                                  !.pc = IF rest = {} THEN "sub_insert_te"
                                         ELSE "sub_delete_members"])
    /\ UNCHANGED <<teachers, classes, teams, students, assignments, access_tokens,
                   member_evaluations, nextId, nextSecret, now, storeUTC, season,
                   session, cookie, resp, hist, nreq, inp>>

\* the handler returns success: logged for the replacement properties
SubmitDone(c) ==
    /\ Reply(c, Response("submit", 200, "success"))
    /\ hist' = Append(hist, [evaluator_student_id |-> req[c].evaluator_id,
                             data |-> req[c].data])

submit_evaluation_insert_te(c) ==
    /\ req[c].pc = "sub_insert_te"
    /\ LET r == req[c] IN
       /\ team_evaluations' = team_evaluations \cup
             {[id |-> nextId.team_evaluations,
               assignment_id |-> r.data.assignment_id,
               evaluated_team_id |-> r.data.evaluated_team_id,
               evaluator_student_id |-> r.evaluator_id,
               team_comment |-> r.data.team_comment,
               team_score |-> r.data.team_score]}
       /\ Bump("team_evaluations")
       /\ IF r.data.member_evaluations = <<>> THEN SubmitDone(c)
          ELSE /\ Goto(c, [r EXCEPT !.pc = "sub_insert_member",
                                    !.te_id = nextId.team_evaluations,
                                    !.idx = 1])
               /\ UNCHANGED <<resp, hist>>
    /\ UNCHANGED <<teachers, classes, teams, students, assignments, access_tokens,
                   member_evaluations, nextSecret, now, storeUTC, season, session,
                   cookie, nreq, inp>>

submit_evaluation_insert_member(c) ==
    /\ req[c].pc = "sub_insert_member"
    /\ LET r == req[c]
           member_eval == r.data.member_evaluations[r.idx]
       IN
       /\ member_evaluations' = member_evaluations \cup
             {[id |-> nextId.member_evaluations,
               team_evaluation_id |-> r.te_id,
               evaluated_student_id |-> member_eval.student_id,
               comment |-> member_eval.comment,
               score |-> member_eval.score]}
       /\ Bump("member_evaluations")
       /\ IF r.idx = Len(r.data.member_evaluations) THEN SubmitDone(c)
          ELSE /\ Goto(c, [r EXCEPT !.idx = r.idx + 1])
               /\ UNCHANGED <<resp, hist>>
    /\ UNCHANGED <<teachers, classes, teams, students, assignments, access_tokens,
                   team_evaluations, nextSecret, now, storeUTC, season, session,
                   cookie, nreq, inp>>

(***************************************************************************)
(* login (POST /login) and select_class (POST /select-class).              *)
(***************************************************************************)
\* the "Check access expiration" test shared by login and select_class
AccessExpired(student) ==
    /\ student.access_expires_at # NoTime
    /\ replace_tzinfo_None(get_est_now) >
         replace_tzinfo_None(parse_iso_datetime(student.access_expires_at))

\* the six session keys written by a student login, select or join
StudentSession(student, class_id, team_id) ==
    [role |-> "student", user_id |-> student.id, name |-> student.name,
     class_id |-> class_id, team_id |-> team_id,
     created_at |-> isoformat(get_est_now)]

\* the candidate list returned when several rows match
classes_info(matching) ==
    UNION {{[student_id |-> student.id, class_id |-> student.class_id,
             class_name |-> cl.name, team_id |-> student.team_id]
              : cl \in {k \in classes : k.id = student.class_id}}
           : student \in matching}

\* teacher login: email lookup, then the password check
login_teacher(c, email, password) ==
    /\ Begin(c, "login_teacher", [email |-> email, password |-> password])
    /\ LET rows == {t \in teachers : t.email = email} IN
       IF rows = {} THEN
           /\ Reply(c, Response("login", 401, "Invalid credentials"))
           /\ UNCHANGED session
       ELSE
           \E teacher \in rows :
             IF check_password_hash(teacher.password, password) THEN
                 /\ session' = [session EXCEPT ![c] =
                                  [@ EXCEPT !.user_id = teacher.id,
                                            !.role = "teacher",
                                            !.name = teacher.name]]
                 /\ Reply(c, Response("login", 200, "teacher_dashboard"))
             ELSE
                 /\ Reply(c, Response("login", 401, "Invalid credentials"))
                 /\ UNCHANGED session
    /\ UNCHANGED <<store, nextSecret, now, storeUTC, season, cookie, hist>>

\* one resolved row: expiry check, device check, then the session
login_single(c, student) ==
    IF AccessExpired(student) THEN
        /\ Reply(c, Response("login", 401, "Access has expired"))
        /\ UNCHANGED <<session, cookie, nextSecret>>
    ELSE IF student.device_token # NoToken THEN
        IF cookie[c] = NoToken \/ cookie[c] # student.device_token THEN
            /\ Reply(c, Response("login", 401,
                                 "Login restricted to the original device"))
            /\ UNCHANGED <<session, cookie, nextSecret>>
        ELSE
            /\ session' = [session EXCEPT ![c] =
                  StudentSession(student, student.class_id, student.team_id)]
            /\ cookie' = [cookie EXCEPT ![c] = student.device_token]
            /\ Reply(c, Response("login", 200, "student_dashboard"))
            /\ UNCHANGED nextSecret
    ELSE
        /\ nextSecret' = nextSecret + 1
        /\ Goto(c, [op |-> "login", pc |-> "login_update",
                    student |-> student, new_device_token |-> nextSecret])
        /\ resp' = [resp EXCEPT ![c] = Pending]
        /\ UNCHANGED <<session, cookie>>

\* variant that asks for a choice only from three matching rows on
login_matching_three(c, matching_students, invalid) ==
    IF matching_students = {} THEN
        /\ Reply(c, Response("login", 401, invalid))
        /\ UNCHANGED <<session, cookie, nextSecret>>
    ELSE IF Cardinality(matching_students) > 2 THEN
        /\ Reply(c, [op |-> "login", status |-> 200,
                     msg |-> "multiple_classes",
                     classes |-> classes_info(matching_students)])
        /\ UNCHANGED <<session, cookie, nextSecret>>
    ELSE
        \E student \in matching_students : login_single(c, student)

\* zero, one or several rows of the name verify against the passcode
login_matching(c, matching_students, invalid) ==
    IF matching_students = {} THEN
        /\ Reply(c, Response("login", 401, invalid))
        /\ UNCHANGED <<session, cookie, nextSecret>>
    ELSE IF Cardinality(matching_students) > 1 THEN
        /\ Reply(c, [op |-> "login", status |-> 200,
                     msg |-> "multiple_classes",
                     classes |-> classes_info(matching_students)])
        /\ UNCHANGED <<session, cookie, nextSecret>>
    ELSE
        \E student \in matching_students : login_single(c, student)

\* variant that tells an unknown name from a wrong passcode
login_student_not_found(c, student_name, passcode) ==
    /\ Begin(c, "login_student",
             [student_name |-> student_name, passcode |-> passcode])
    /\ LET student_response == {s \in students : s.name = student_name}
           matching_students ==
             {s \in student_response :
                 check_password_hash(s.passcode, passcode)}
       IN  IF student_response = {} THEN
               /\ Reply(c, Response("login", 404, "Student not found"))
               /\ UNCHANGED <<session, cookie, nextSecret>>
           ELSE
               login_matching(c, matching_students, "Invalid passcode")
    /\ UNCHANGED <<store, now, storeUTC, season, hist>>

\* the lookup by name, then the passcode check of each row found
login_student(c, student_name, passcode) ==
    /\ Begin(c, "login_student",
             [student_name |-> student_name, passcode |-> passcode])
    /\ LET student_response == {s \in students : s.name = student_name}
           matching_students ==
             {s \in student_response :
                 check_password_hash(s.passcode, passcode)}
       IN  IF student_response = {} THEN
               /\ Reply(c, Response("login", 401, "Invalid passcode"))
               /\ UNCHANGED <<session, cookie, nextSecret>>
           ELSE
               login_matching(c, matching_students, "Invalid passcode")
    /\ UNCHANGED <<store, now, storeUTC, season, hist>>

\* variant that takes any row of the name whose passcode verifies
login_guest_any_row(c, name, guest_passcode) ==
    /\ Begin(c, "login_guest", [name |-> name, passcode |-> guest_passcode])
    /\ LET matching_guests ==
             {s \in students : /\ s.name = name
                               /\ check_password_hash(s.passcode, guest_passcode)}
       IN  login_matching(c, matching_guests,
                          "Guest account not found or invalid passcode.")
    /\ UNCHANGED <<store, now, storeUTC, season, hist>>

login_guest(c, name, guest_passcode) ==
    /\ Begin(c, "login_guest", [name |-> name, passcode |-> guest_passcode])
    /\ LET matching_guests ==
             {s \in students : /\ s.name = name
                               /\ s.student_id \in {"non-student", ""}
                               /\ check_password_hash(s.passcode, guest_passcode)}
       IN  login_matching(c, matching_guests,
                          "Guest account not found or invalid passcode.")
    /\ UNCHANGED <<store, now, storeUTC, season, hist>>

\* "Lock to this device": the update of device_token, then the session
login_update(c) ==
    /\ req[c].pc = "login_update"
    /\ LET r == req[c] IN
       /\ students' = {IF s.id = r.student.id
                       THEN [s EXCEPT !.device_token = r.new_device_token]
                       ELSE s : s \in students}
       /\ session' = [session EXCEPT ![c] =
             StudentSession(r.student, r.student.class_id, r.student.team_id)]
       /\ cookie' = [cookie EXCEPT ![c] = r.new_device_token]
       /\ Reply(c, Response("login", 200, "student_dashboard"))
    /\ UNCHANGED <<teachers, classes, teams, assignments, access_tokens,
                   team_evaluations, member_evaluations, nextId, nextSecret,
                   now, storeUTC, season, hist, nreq, inp>>

select_class(c, data) ==
    /\ Begin(c, "select", data)
    /\ LET rows == {s \in students : s.id = data.student_id} IN
       IF data.student_id = 0 THEN
           /\ Reply(c, Response("select", 400, "Invalid request"))
           /\ UNCHANGED <<session, cookie, nextSecret>>
       ELSE IF rows = {} THEN
           /\ Reply(c, Response("select", 404, "Student not found"))
           /\ UNCHANGED <<session, cookie, nextSecret>>
       ELSE
           \E student \in rows :
             IF AccessExpired(student) THEN
                 /\ Reply(c, Response("select", 401, "Access has expired"))
                 /\ UNCHANGED <<session, cookie, nextSecret>>
             ELSE IF student.device_token = NoToken THEN
                 /\ nextSecret' = nextSecret + 1
                 /\ Goto(c, [op |-> "select", pc |-> "select_update",
                             student |-> student, data |-> data,
                             device_token |-> nextSecret])
                 /\ resp' = [resp EXCEPT ![c] = Pending]
                 /\ UNCHANGED <<session, cookie>>
             ELSE
                 /\ session' = [session EXCEPT ![c] =
                       StudentSession(student, data.class_id, data.team_id)]
                 /\ cookie' = [cookie EXCEPT ![c] = student.device_token]
                 /\ Reply(c, Response("select", 200, "student_dashboard"))
                 /\ UNCHANGED nextSecret
    /\ UNCHANGED <<store, now, storeUTC, season, hist>>

select_class_update(c) ==
    /\ req[c].pc = "select_update"
    /\ LET r == req[c] IN
       /\ students' = {IF s.id = r.student.id
                       THEN [s EXCEPT !.device_token = r.device_token]
                       ELSE s : s \in students}
       /\ session' = [session EXCEPT ![c] =
             StudentSession(r.student, r.data.class_id, r.data.team_id)]
       /\ cookie' = [cookie EXCEPT ![c] = r.device_token]
       /\ Reply(c, Response("select", 200, "student_dashboard"))
    /\ UNCHANGED <<teachers, classes, teams, assignments, access_tokens,
                   team_evaluations, member_evaluations, nextId, nextSecret,
                   now, storeUTC, season, hist, nreq, inp>>

\* variant whose logout also releases the device binding of the row
logout_unbinds(c) ==
    /\ Begin(c, "logout", <<>>)
    /\ session' = [session EXCEPT ![c] = NoSession]
    /\ students' = {IF s.id = session[c].user_id /\ session[c].role = "student"
                    THEN [s EXCEPT !.device_token = NoToken]
                    ELSE s : s \in students}
    /\ Reply(c, Response("logout", 302, "login"))
    /\ UNCHANGED <<teachers, classes, teams, assignments, access_tokens,
                   team_evaluations, member_evaluations, nextId, nextSecret,
                   now, storeUTC, season, cookie, hist>>

logout(c) ==
    /\ Begin(c, "logout", <<>>)
    /\ session' = [session EXCEPT ![c] = NoSession]
    /\ Reply(c, Response("logout", 302, "login"))
    /\ UNCHANGED <<store, nextSecret, now, storeUTC, season, cookie, hist>>

(***************************************************************************)
(* Access tokens and join_class (POST /join/<token>).                      *)
(***************************************************************************)
timedelta_hours(dt, h) == [wall |-> dt.wall + h, off |-> dt.off]

generate_access_link(c, class_id) ==
    /\ Begin(c, "access-link", [class_id |-> class_id])
    /\ IF session[c].role # "teacher" THEN
           /\ Reply(c, Response("access-link", 401, "Unauthorized"))
           /\ UNCHANGED <<access_tokens, nextSecret>>
       ELSE
           LET expires_at == timedelta_hours(get_est_now, LinkHours) IN
           /\ access_tokens' = access_tokens \cup
                 {[token |-> nextSecret, class_id |-> class_id,
                   expires_at |-> store_timestamp(isoformat(expires_at))]}
           /\ nextSecret' = nextSecret + 1
           /\ Reply(c, [op |-> "access-link", status |-> 200,
                        msg |-> "link", token |-> nextSecret,
                        expires_at |-> isoformat(expires_at)])
    /\ UNCHANGED <<teachers, classes, teams, students, assignments,
                   team_evaluations, member_evaluations, nextId, now,
                   storeUTC, season, session, cookie, hist>>

\* the "Check if token expired" test of join_class
TokenExpired(expires_at) ==
    replace_tzinfo_None(get_est_now) > replace_tzinfo_None(expires_at)

\* variant whose name loop starts at the suffix " (2)", the name as typed
\* never being probed
JoinReq_suffix_first(pc, ret, data, expires_at, class_id, device_token, class_name, team_id, student) ==
    [op |-> "join", pc |-> pc, ret |-> ret, data |-> data,
     expires_at |-> expires_at, class_id |-> class_id,
     device_token |-> device_token, class_name |-> class_name,
     team_id |-> team_id, student |-> student,
     original_name |-> data.student_name, counter |-> 2, unique_name |-> ""]

JoinReq(pc, ret, data, expires_at, class_id, device_token, class_name, team_id, student) ==
    [op |-> "join", pc |-> pc, ret |-> ret, data |-> data,
     expires_at |-> expires_at, class_id |-> class_id,
     device_token |-> device_token, class_name |-> class_name,
     team_id |-> team_id, student |-> student,
     original_name |-> data.student_name, counter |-> 1, unique_name |-> ""]

\* token validation, then the lookups that pick the guest / pre-added / new path
join_class(c, token, data) ==
    /\ Begin(c, "join", [token |-> token, data |-> data])
    /\ LET rows == {t \in access_tokens : t.token = token} IN
       IF rows = {} THEN
           /\ Reply(c, Response("join", 400, "Invalid token"))
           /\ UNCHANGED nextSecret
       ELSE
           \E token_data \in rows :
             LET expires_at == parse_iso_datetime(token_data.expires_at)
                 class_id == token_data.class_id
                 cls == {k \in classes : k.id = class_id}
                 class_name == IF cls = {} THEN "Guest"
                               ELSE (CHOOSE k \in cls : TRUE).name
                 guests == {t \in teams : t.class_id = class_id
                                          /\ t.name = "Guests"}
                 pre_added == {s \in students :
                                 /\ s.student_id = data.student_id
                                 /\ s.team_id = data.team_id
                                 /\ s.is_pre_added}
             IN
             IF TokenExpired(expires_at) THEN
                 /\ Reply(c, Response("join", 400, "Token expired"))
                 /\ UNCHANGED nextSecret
             ELSE
                 /\ nextSecret' = nextSecret + 1
                 /\ resp' = [resp EXCEPT ![c] = Pending]
                 /\ IF data.is_guest THEN
                        IF guests = {} THEN
                            Goto(c, JoinReq("join_guests_team_insert",
                                            "join_guest_insert", data,
                                            expires_at, class_id, nextSecret,
                                            class_name, 0, Idle))
                        ELSE
                            \E guests_team \in guests :
                              Goto(c, JoinReq("alloc", "join_guest_insert",
                                              data, expires_at, class_id,
                                              nextSecret, class_name,
                                              guests_team.id, Idle))
                    ELSE IF pre_added # {} THEN
                        \E student \in pre_added :
                          Goto(c, JoinReq("alloc", "join_pre_added_update",
                                          data, expires_at, class_id,
                                          nextSecret, "", data.team_id,
                                          student))
                    ELSE
                        Goto(c, JoinReq("alloc", "join_new_insert", data,
                                        expires_at, class_id, nextSecret, "",
                                        data.team_id, Idle))
    /\ UNCHANGED <<store, now, storeUTC, season, session, cookie, hist>>

join_class_guests_team_insert(c) ==
    /\ req[c].pc = "join_guests_team_insert"
    /\ teams' = teams \cup {[id |-> nextId.teams, name |-> "Guests",
                             class_id |-> req[c].class_id]}
    /\ Bump("teams")
    /\ Goto(c, [req[c] EXCEPT !.pc = "alloc", !.team_id = nextId.teams])
    /\ UNCHANGED <<teachers, classes, students, assignments, access_tokens,
                   team_evaluations, member_evaluations, nextSecret, now,
                   storeUTC, season, session, cookie, resp, hist, nreq, inp>>

\* variant that never moves past the suffix " (2)"
new_name_second_only(original_name, counter) ==
    IF counter = 1 THEN original_name ELSE original_name \o " (2)"

\* the name probed at this value of the counter: original_name first, then
\* f"{original_name} ({counter})"
new_name(original_name, counter) ==
    IF counter = 1 THEN original_name
    ELSE original_name \o " (" \o ToString(counter) \o ")"

\* variant whose suffixes start at " (1)"
get_unique_student_name_from_one(c) ==
    /\ req[c].pc = "alloc"
    /\ LET r == req[c]
           name_from_one ==
               IF r.counter = 1 THEN r.original_name
               ELSE r.original_name \o " (" \o ToString(r.counter - 1) \o ")"
           existing == {s \in students : s.team_id = r.team_id
                                         /\ s.name = name_from_one}
       IN  IF existing = {} THEN
               Goto(c, [r EXCEPT !.pc = r.ret, !.unique_name = name_from_one])
           ELSE
               Goto(c, [r EXCEPT !.counter = r.counter + 1])
    /\ UNCHANGED <<store, nextSecret, now, storeUTC, season, session, cookie, resp,
                   hist, nreq, inp>>

\* one probe of the name loop: original_name first, then "name (n)", n = 2, 3..
get_unique_student_name(c) ==
    /\ req[c].pc = "alloc"
    /\ LET r == req[c]
           existing == {s \in students :
                          /\ s.team_id = r.team_id
                          /\ s.name = new_name(r.original_name, r.counter)}
       IN  IF existing = {} THEN
               Goto(c, [r EXCEPT !.pc = r.ret,
                                 !.unique_name =
                                     new_name(r.original_name, r.counter)])
           ELSE
               Goto(c, [r EXCEPT !.counter = r.counter + 1])
    /\ UNCHANGED <<store, nextSecret, now, storeUTC, season, session, cookie, resp,
                   hist, nreq, inp>>

\* "Create session" and the device cookie at the end of join_class
JoinSession(c, student, class_id, team_id, device_token) ==
    /\ session' = [session EXCEPT ![c] =
                      StudentSession(student, class_id, team_id)]
    /\ cookie' = [cookie EXCEPT ![c] = device_token]
    /\ Reply(c, Response("join", 200, "student_dashboard"))

\* variant that inserts the row without an expiry
JoinInsert_no_expiry(c, student_id, passcode) ==
    LET r == req[c]
        student == Student(nextId.students, r.unique_name, student_id,
                           generate_password_hash(passcode), r.team_id,
                           r.class_id, FALSE, NoTime, r.device_token)
    IN  /\ students' = students \cup {student}
        /\ Bump("students")
        /\ JoinSession(c, student, r.class_id, r.team_id, r.device_token)

JoinInsert(c, student_id, passcode) ==
    LET r == req[c]
        student == Student(nextId.students, r.unique_name, student_id,
                           generate_password_hash(passcode), r.team_id,
                           r.class_id, FALSE,
                           store_timestamp(isoformat(r.expires_at)),
                           r.device_token)
    IN  /\ students' = students \cup {student}
        /\ Bump("students")
        /\ JoinSession(c, student, r.class_id, r.team_id, r.device_token)

join_class_guest_insert(c) ==
    /\ req[c].pc = "join_guest_insert"
    /\ JoinInsert(c, "", req[c].class_name)
    /\ UNCHANGED <<teachers, classes, teams, assignments, access_tokens,
                   team_evaluations, member_evaluations, nextSecret, now,
                   storeUTC, season, hist, nreq, inp>>

join_class_new_insert(c) ==
    /\ req[c].pc = "join_new_insert"
    /\ JoinInsert(c, req[c].data.student_id, req[c].data.student_id)
    /\ UNCHANGED <<teachers, classes, teams, assignments, access_tokens,
                   team_evaluations, member_evaluations, nextSecret, now,
                   storeUTC, season, hist, nreq, inp>>

\* variant that inserts a row for a pre-added student instead of updating
join_class_pre_added_update_inserts(c) ==
    /\ req[c].pc = "join_pre_added_update"
    /\ JoinInsert(c, req[c].data.student_id, req[c].data.student_id)
    /\ UNCHANGED <<teachers, classes, teams, assignments, access_tokens,
                   team_evaluations, member_evaluations, nextSecret, now,
                   storeUTC, season, hist, nreq, inp>>

join_class_pre_added_update(c) ==
    /\ req[c].pc = "join_pre_added_update"
    /\ LET r == req[c] IN
       /\ students' =
            {IF s.id = r.student.id
             THEN [s EXCEPT !.name = r.unique_name,
                            !.access_expires_at =
                                store_timestamp(isoformat(r.expires_at)),
                            !.device_token = r.device_token]
             ELSE s : s \in students}
       /\ JoinSession(c, r.student, r.class_id, r.team_id, r.device_token)
    /\ UNCHANGED <<teachers, classes, teams, assignments, access_tokens,
                   team_evaluations, member_evaluations, nextId, nextSecret,
                   now, storeUTC, season, hist, nreq, inp>>

(***************************************************************************)
(* A store call of a handler raises: its except clause answers 500 and     *)
(* whatever the handler wrote before stays written.                        *)
(***************************************************************************)
handler_except(c) ==
    /\ req[c].pc # "idle"
    /\ Reply(c, Response(req[c].op, 500, "store error"))
    /\ UNCHANGED <<store, nextSecret, now, storeUTC, season, session, cookie, hist,
                   nreq, inp>>

\* the clock advances by one hour
Tick ==
    /\ now < MaxTime
    /\ now' = now + 1
    /\ UNCHANGED <<store, nextSecret, storeUTC, season, session, cookie, req, resp,
                   hist, nreq, inp>>

(***************************************************************************)
(* A populated store: teacher "Dr. X" owns classes CS101 and CS102, each   *)
(* with the "Guests" team manage_classes creates; "Mike Lee" was pre-added *)
(* with the same institutional id to a team of each class.                 *)
(***************************************************************************)
InitTeachers ==
    {[id |-> 1, name |-> "Dr. X", email |-> "x@monmouth.edu",
      password |-> generate_password_hash("pw")]}

InitClasses == {[id |-> 1, name |-> "CS101"], [id |-> 2, name |-> "CS102"]}

InitTeams ==
    {[id |-> 1, name |-> "Guests", class_id |-> 1],
     [id |-> 2, name |-> "Team 1", class_id |-> 1],
     [id |-> 3, name |-> "Team 2", class_id |-> 1],
     [id |-> 4, name |-> "Guests", class_id |-> 2],
     [id |-> 5, name |-> "Team 2", class_id |-> 2]}

InitAssignments == {[id |-> 1, class_id |-> 1]}

\* rows as add_students_to_team writes them; dev gives the device_token of
\* the rows that have already logged in once
InitStudents(dev) ==
    {Student(1, "Mike Lee", "S123", generate_password_hash("S123"), 2, 1,
             TRUE, NoTime, dev[1]),
     Student(2, "Mike Lee", "S123", generate_password_hash("S123"), 5, 2,
             TRUE, NoTime, dev[2]),
     Student(3, "Ann Kim", "S456", generate_password_hash("S456"), 3, 1,
             TRUE, NoTime, dev[3]),
     Student(4, "Pat", "non-student", generate_password_hash("CS101"), 1, 1,
             FALSE, NoTime, dev[4])}

InitStore(dev) ==
    /\ teachers = InitTeachers
    /\ classes = InitClasses
    /\ teams = InitTeams
    /\ assignments = InitAssignments
    /\ students = InitStudents(dev)
    /\ team_evaluations = {}
    /\ member_evaluations = {}
    /\ nextId = [teams |-> 6, students |-> 5, team_evaluations |-> 1,
                 member_evaluations |-> 1]

\* the session a completed teacher login leaves
TeacherSession(t) ==
    [NoSession EXCEPT !.role = "teacher", !.user_id = t.id, !.name = t.name]

\* the session a completed student login at instant 0 leaves
LoggedIn(student) ==
    [role |-> "student", user_id |-> student.id, name |-> student.name,
     class_id |-> student.class_id, team_id |-> student.team_id,
     created_at |-> <<utcoffset(0), utcoffset(0)>>]

(***************************************************************************)
(* SpecEval: the evaluation recorder.  Each client holds the session of    *)
(* student 1 or of the teacher; clients submit and re-select concurrently, *)
(* and any store call may raise.  SpecEvalSeq runs the same handlers one   *)
(* request at a time, with a store that does not fail.                     *)
(***************************************************************************)
EvalDev == <<1, NoToken, 2, NoToken>>

EvalPayloads ==
    {[team_comment |-> "good", team_score |-> 5,
      member_evaluations |-> <<[student_id |-> 3, comment |-> "ok", score |-> 4]>>],
     [team_comment |-> "poor", team_score |-> 2,
      member_evaluations |-> <<[student_id |-> 3, comment |-> "late", score |-> 1],
                               [student_id |-> 1, comment |-> "fine", score |-> 3]>>]}

EvalTargets == {1, 2, 3}

SubmitData ==
    {[assignment_id |-> 1, evaluated_team_id |-> g,
      team_comment |-> p.team_comment, team_score |-> p.team_score,
      member_evaluations |-> p.member_evaluations]
        : g \in EvalTargets, p \in EvalPayloads}

\* student 1 re-selects its class, naming team 3 instead of its own team 2
EvalSelectData == {[student_id |-> 1, class_id |-> 1, team_id |-> 3]}

InitEval ==
    /\ season = "autumn"
    /\ InitStore(EvalDev)
    /\ access_tokens = {}
    /\ nextSecret = 3
    /\ now = 0
    /\ storeUTC = FALSE
    /\ \E who \in [Clients -> {1, 0}] :
         /\ session = [c \in Clients |->
               IF who[c] = 0 THEN TeacherSession(CHOOSE t \in InitTeachers : TRUE)
               ELSE LoggedIn(CHOOSE s \in InitStudents(EvalDev) : s.id = who[c])]
         /\ cookie = [c \in Clients |->
               IF who[c] = 0 THEN NoToken ELSE EvalDev[who[c]]]
    /\ req = [c \in Clients |-> Idle]
    /\ resp = [c \in Clients |-> Pending]
    /\ hist = <<>>
    /\ nreq = MaxEvalRequests
    /\ inp = [c \in Clients |-> Pending]

EvalStep(c) ==
    \/ \E data \in SubmitData : submit_evaluation_begin(c, data)
    \/ submit_evaluation_team(c)
    \/ get_or_create_teacher_student_record_team(c)
    \/ get_or_create_teacher_student_record_team_insert(c)
    \/ get_or_create_teacher_student_record_student(c)
    \/ get_or_create_teacher_student_record_student_insert(c)
    \/ submit_evaluation_existing(c)
    \/ submit_evaluation_delete_members(c)
    \/ submit_evaluation_delete_te(c)
    \/ submit_evaluation_insert_te(c)
    \/ submit_evaluation_insert_member(c)
    \/ \E data \in EvalSelectData : select_class(c, data)

NextEval ==
    \E c \in Clients : EvalStep(c) \/ handler_except(c)

SpecEval == InitEval /\ [][NextEval]_vars

Alone(c) == \A d \in Clients \ {c} : req[d].pc = "idle"

NextEvalSeq == \E c \in Clients : Alone(c) /\ EvalStep(c)

SpecEvalSeq == InitEval /\ [][NextEvalSeq]_vars

(***************************************************************************)
(* Properties of the evaluation recorder.                                  *)
(***************************************************************************)
AllIdle == \A c \in Clients : req[c].pc = "idle"

Bundle(assignment_id, evaluated_team_id, evaluator_student_id) ==
    {e \in team_evaluations :
        /\ e.assignment_id = assignment_id
        /\ e.evaluated_team_id = evaluated_team_id
        /\ e.evaluator_student_id = evaluator_student_id}

SameTriple(h, k) ==
    /\ h.evaluator_student_id = k.evaluator_student_id
    /\ h.data.assignment_id = k.data.assignment_id
    /\ h.data.evaluated_team_id = k.data.evaluated_team_id

\* the member entries of a payload, and those stored under a team evaluation
PayloadEntries(data) ==
    {data.member_evaluations[i] : i \in 1..Len(data.member_evaluations)}

StoredEntries(te) ==
    {[student_id |-> m.evaluated_student_id, comment |-> m.comment,
      score |-> m.score] : m \in MemberRows(te)}

\* the store holds exactly the bundle of the completed submit h
HoldsExactly(h) ==
    LET b == Bundle(h.data.assignment_id, h.data.evaluated_team_id,
                    h.evaluator_student_id)
    IN  /\ Cardinality(b) = 1
        /\ \A e \in b :
             /\ e.team_comment = h.data.team_comment
             /\ e.team_score = h.data.team_score
             /\ StoredEntries(e.id) = PayloadEntries(h.data)
             /\ Cardinality(MemberRows(e.id)) = Len(h.data.member_evaluations)

\* C1: between requests, the store holds for every (assignment, evaluated
\* team, evaluator) exactly one TeamEvaluation, carrying the comment, score
\* and member entries of the last submit that completed for that triple and
\* no row of an earlier one.
C1_ReplaceSemantics ==
    AllIdle =>
      \A j \in 1..Len(hist) :
         (\A k \in (j+1)..Len(hist) : ~SameTriple(hist[j], hist[k]))
            => HoldsExactly(hist[j])

C1_Witness ==
    /\ AllIdle
    /\ Len(hist) = 2
    /\ SameTriple(hist[1], hist[2])
    /\ hist[1].data # hist[2].data
    /\ HoldsExactly(hist[2])

\* C2: at most one TeamEvaluation row per (assignment_id, evaluated_team_id,
\* evaluator_student_id) in every reachable state.
C2_AtMostOnePerTriple ==
    \A e, f \in team_evaluations :
       (/\ e.assignment_id = f.assignment_id
        /\ e.evaluated_team_id = f.evaluated_team_id
        /\ e.evaluator_student_id = f.evaluator_student_id) => e.id = f.id

\* C3: every MemberEvaluation row references a TeamEvaluation row that
\* exists.
C3_NoOrphanMembers ==
    \A m \in member_evaluations :
       \E e \in team_evaluations : e.id = m.team_evaluation_id

\* C4: no TeamEvaluation has an ordinary (non teacher-proxy) Student as
\* evaluator and that Student's own stored team as evaluated team.
C4_NoSelfEvaluation ==
    \A e \in team_evaluations :
       \A s \in students :
          (s.id = e.evaluator_student_id /\ s.student_id # "teacher")
             => e.evaluated_team_id # s.team_id

IsGuests(team_id) == \E t \in teams : t.id = team_id /\ t.name = "Guests"

\* C5: no TeamEvaluation targets a team named "Guests", and no submit whose
\* target is a Guests team gets past the target check to evaluator
\* resolution, deletion or insertion.
C5_GuestsNeverEvaluated ==
    /\ \A e \in team_evaluations : ~IsGuests(e.evaluated_team_id)
    /\ \A c \in Clients :
         (req[c].pc # "idle" /\ req[c].op = "submit" /\ req[c].pc # "sub_team")
            => ~IsGuests(req[c].data.evaluated_team_id)

C5_Witness ==
    \E c \in Clients :
       /\ resp[c] = Response("submit", 403, "Cannot evaluate the Guests group")
       /\ session[c].role \in {"student", "teacher"}

(***************************************************************************)
(* SpecLogin: identity resolution.  Nobody is logged in; student 2 and     *)
(* student 3 have logged in before (their device_token is set, client c1   *)
(* holds student 3's cookie), students 1 and 4 never have; one join link   *)
(* of class CS101 was issued at instant 0.  SpecLoginSeq runs one request  *)
(* at a time.                                                              *)
(***************************************************************************)
LoginDev == <<NoToken, 1, 2, NoToken>>

LoginCreds ==
    {<<"Mike Lee", "S123">>, <<"Ann Kim", "S456">>, <<"Ann Kim", "S123">>,
     <<"Pat", "CS101">>, <<"Nobody", "S123">>}

GuestCreds == {<<"Pat", "CS101">>, <<"Ann Kim", "S456">>}

LoginSelectData ==
    {[student_id |-> s, class_id |-> k[1], team_id |-> k[2]]
        : s \in {1, 2, 9}, k \in {<<1, 2>>, <<2, 5>>}}

JoinData ==
    {[student_name |-> "Pat", student_id |-> "", team_id |-> 0,
      is_guest |-> TRUE],
     [student_name |-> "Ann Kim", student_id |-> "S456", team_id |-> 3,
      is_guest |-> FALSE],
     [student_name |-> "Mike Lee", student_id |-> "S999", team_id |-> 2,
      is_guest |-> FALSE]}

JoinTokens == {3, 99}

\* the row generate_access_link writes at instant 0 for class 1
LinkIssuedAt0 ==
    [token |-> 3, class_id |-> 1,
     expires_at |-> store_timestamp(
                      <<utcoffset(0) + LinkHours, utcoffset(0)>>)]

InitLogin ==
    /\ season = "autumn"
    /\ InitStore(LoginDev)
    /\ nextSecret = 4
    /\ now = 0
    /\ storeUTC = FALSE
    /\ access_tokens = {LinkIssuedAt0}
    /\ session = [c \in Clients |-> NoSession]
    /\ cookie = [c \in Clients |-> IF c = "c1" THEN 2 ELSE NoToken]
    /\ req = [c \in Clients |-> Idle]
    /\ resp = [c \in Clients |-> Pending]
    /\ hist = <<>>
    /\ nreq = MaxLoginRequests
    /\ inp = [c \in Clients |-> Pending]

LoginStep(c) ==
    \/ \E cr \in LoginCreds : login_student(c, cr[1], cr[2])
    \/ \E cr \in GuestCreds : login_guest(c, cr[1], cr[2])
    \/ login_update(c)
    \/ \E data \in LoginSelectData : select_class(c, data)
    \/ select_class_update(c)
    \/ \E token \in JoinTokens, data \in JoinData : join_class(c, token, data)
    \/ get_unique_student_name(c)
    \/ join_class_guest_insert(c)
    \/ join_class_new_insert(c)
    \/ join_class_pre_added_update(c)

NextLogin == \E c \in Clients : LoginStep(c) \/ handler_except(c)

SpecLogin == InitLogin /\ [][NextLogin]_vars

NextLoginSeq == \E c \in Clients : Alone(c) /\ LoginStep(c)

SpecLoginSeq == InitLogin /\ [][NextLoginSeq]_vars

(***************************************************************************)
(* Properties of identity resolution.                                      *)
(***************************************************************************)
\* client c receives the answer to its request in this step
Completes(c) ==
    /\ req'[c].pc = "idle"
    /\ req[c].pc # "idle" \/ inp'[c] # inp[c]

\* client c begins a request in this step
Begins(c, op) == inp'[c] # inp[c] /\ inp'[c].op = op

\* this step answers c's login, guest login or select with a student session
EstablishesSession(c, ops) ==
    /\ Completes(c)
    /\ inp'[c].op \in ops
    /\ resp'[c].status = 200
    /\ resp'[c].msg = "student_dashboard"

\* C6: no student login, guest login or select establishes a session for a
\* Student whose persisted device_token is set unless the presented device
\* cookie equals it.
C6_DeviceBinding ==
    [][\A c \in Clients :
         EstablishesSession(c, {"login_student", "login_guest", "select"})
           => \A s \in students :
                (s.id = session'[c].user_id /\ s.device_token # NoToken)
                   => cookie[c] = s.device_token]_vars

\* C7: once a Student row's device_token is set, no step changes it to a
\* different value.
C7_DeviceTokenImmutable ==
    [][\A s \in students : \A t \in students' :
         (s.id = t.id /\ s.device_token # NoToken)
            => t.device_token = s.device_token]_vars

\* the rows a student login with these arguments resolves to
Matching(args) ==
    {s \in students : /\ s.name = args.student_name
                      /\ s.passcode = generate_password_hash(args.passcode)}

Candidate(s) ==
    [student_id |-> s.id, class_id |-> s.class_id,
     class_name |-> (CHOOSE k \in classes : k.id = s.class_id).name,
     team_id |-> s.team_id]

\* C8: a student login whose name and passcode match no row answers
\* InvalidCredentials without a session; one that matches several rows
\* answers one candidate per matching row without a session; one that
\* matches a single row goes on to the expiry and device checks of that row.
C8_LoginMatching ==
    [][\A c \in Clients :
         Begins(c, "login_student") =>
           LET M == Matching(inp'[c].args) IN
           /\ M = {} =>
                /\ resp'[c] = Response("login", 401, "Invalid passcode")
                /\ session'[c] = session[c]
           /\ Cardinality(M) > 1 =>
                /\ req'[c].pc = "idle"
                /\ resp'[c].status = 200
                /\ resp'[c].msg = "multiple_classes"
                /\ resp'[c].classes = {Candidate(s) : s \in M}
                /\ Cardinality(resp'[c].classes) = Cardinality(M)
                /\ session'[c] = session[c]
           /\ Cardinality(M) = 1 =>
                \A s \in M :
                  \/ /\ req'[c].pc = "login_update"
                     /\ req'[c].student = s
                     /\ session'[c] = session[c]
                  \/ /\ req'[c].pc = "idle"
                     /\ resp'[c].msg \in
                          {"Access has expired",
                           "Login restricted to the original device"}
                     /\ session'[c] = session[c]
                  \/ /\ req'[c].pc = "idle"
                     /\ resp'[c].msg = "student_dashboard"
                     /\ session'[c].user_id = s.id]_vars

C8_Witness ==
    \E c \in Clients :
       /\ inp[c].op = "login_student"
       /\ req[c].pc = "idle"
       /\ resp[c].msg = "multiple_classes"
       /\ Cardinality(resp[c].classes) = 2
       /\ session[c] = NoSession

\* C9: a session established by select carries the student_id as principal
\* and the class_id and team_id stored on that Student row.
C9_SelectSessionFromRow ==
    [][\A c \in Clients :
         EstablishesSession(c, {"select"})
           => \A s \in students :
                s.id = inp'[c].args.student_id
                  => /\ session'[c].user_id = s.id
                     /\ session'[c].class_id = s.class_id
                     /\ session'[c].team_id = s.team_id]_vars

(***************************************************************************)
(* SpecToken: the access-token lifecycle over time.  The teacher is logged *)
(* in on client c1 and issues join links; clients join with them while the *)
(* clock advances across the end of daylight time.                         *)
(***************************************************************************)
TokenDev == <<NoToken, NoToken, NoToken, NoToken>>

TokenJoinTokens == {1, 2, 99}

InitToken ==
    /\ season \in Seasons
    /\ InitStore(TokenDev)
    /\ nextSecret = 1
    /\ now = 0
    /\ storeUTC \in BOOLEAN
    /\ access_tokens = {}
    /\ session = [c \in Clients |->
          IF c = "c1" THEN TeacherSession(CHOOSE t \in InitTeachers : TRUE)
          ELSE NoSession]
    /\ cookie = [c \in Clients |-> NoToken]
    /\ req = [c \in Clients |-> Idle]
    /\ resp = [c \in Clients |-> Pending]
    /\ hist = <<>>
    /\ nreq = MaxTokenRequests
    /\ inp = [c \in Clients |-> Pending]

TokenStep(c) ==
    \/ generate_access_link(c, 1)
    \/ \E token \in TokenJoinTokens, data \in JoinData :
          join_class(c, token, data)
    \/ get_unique_student_name(c)
    \/ join_class_guest_insert(c)
    \/ join_class_new_insert(c)
    \/ join_class_pre_added_update(c)

NextToken == Tick \/ \E c \in Clients : TokenStep(c)

SpecToken == InitToken /\ [][NextToken]_vars

\* C10: a link issued at instant T0 expires at T0 + 4 hours, and a join at
\* instant t passes token validation iff the token exists and t does not
\* exceed its expires_at: later joins answer "Token expired", joins of an
\* unknown token answer "Invalid token".
C10_TokenWindow ==
    [][\A c \in Clients :
         /\ (Begins(c, "access-link") /\ resp'[c].status = 200) =>
               \E t \in access_tokens' \ access_tokens :
                  /\ t.token = resp'[c].token
                  /\ Instant(parse_iso_datetime(t.expires_at))
                        = now + LinkHours
         /\ Begins(c, "join") =>
               LET rows == {t \in access_tokens :
                               t.token = inp'[c].args.token}
               IN  /\ rows = {} =>
                        resp'[c] = Response("join", 400, "Invalid token")
                   /\ \A t \in rows :
                        IF now > Instant(parse_iso_datetime(t.expires_at))
                        THEN resp'[c] = Response("join", 400, "Token expired")
                        ELSE req'[c].pc # "idle"]_vars

(***************************************************************************)
(* Properties of join-by-token.                                            *)
(***************************************************************************)
\* this step answers c's join with success
JoinSucceeds(c) ==
    /\ Completes(c)
    /\ inp'[c].op = "join"
    /\ resp'[c].status = 200

\* C11: after every successful join the created or updated Student's
\* access_expires_at equals the expires_at of the token used, and its
\* persisted device_token is the token minted by this join, which is also
\* the device cookie handed back.
C11_JoinPinsExpiryAndDevice ==
    [][\A c \in Clients :
         JoinSucceeds(c) =>
           /\ cookie'[c] # NoToken
           /\ \A s \in students : s.device_token # cookie'[c]
           /\ \E s \in students' :
                /\ s.id = session'[c].user_id
                /\ s.device_token = cookie'[c]
                /\ \E t \in access_tokens :
                     /\ t.token = inp'[c].args.token
                     /\ s.access_expires_at = t.expires_at]_vars

C11_Witness ==
    \E c \in Clients :
       /\ inp[c].op = "join"
       /\ resp[c] = Response("join", 200, "student_dashboard")
       /\ \E s \in students, t \in access_tokens :
            /\ s.id = session[c].user_id
            /\ t.token = inp[c].args.token
            /\ s.access_expires_at = t.expires_at
            /\ s.device_token = cookie[c]
            /\ s.is_pre_added

(***************************************************************************)
(* check_evaluation_exists (GET /api/evaluations/check/<a>/<t>), behind    *)
(* the @student_required decorator.                                        *)
(***************************************************************************)
\* variant that looks for a row of any evaluator
check_evaluation_exists_any_evaluator(c, assignment_id, team_id) ==
    /\ Begin(c, "check", [assignment_id |-> assignment_id, team_id |-> team_id])
    /\ LET auth == student_required(session[c])
           existing == {e \in team_evaluations :
                          /\ e.assignment_id = assignment_id
                          /\ e.evaluated_team_id = team_id}
       IN  IF auth = "unauthorized" THEN
               /\ Reply(c, Response("check", 401, "Unauthorized"))
               /\ UNCHANGED session
           ELSE IF auth = "expired" THEN
               /\ session' = [session EXCEPT ![c] = NoSession]
               /\ Reply(c, Response("check", 401, "Session expired"))
           ELSE
               /\ Reply(c, [op |-> "check", status |-> 200, msg |-> "exists",
                            exists |-> existing # {}])
               /\ UNCHANGED session
    /\ UNCHANGED <<store, nextSecret, now, storeUTC, season, cookie, hist>>

check_evaluation_exists(c, assignment_id, team_id) ==
    /\ Begin(c, "check", [assignment_id |-> assignment_id, team_id |-> team_id])
    /\ LET auth == student_required(session[c])
           existing == {e \in team_evaluations :
                          /\ e.assignment_id = assignment_id
                          /\ e.evaluated_team_id = team_id
                          /\ e.evaluator_student_id = session[c].user_id}
       IN  IF auth = "unauthorized" THEN
               /\ Reply(c, Response("check", 401, "Unauthorized"))
               /\ UNCHANGED session
           ELSE IF auth = "expired" THEN
               /\ session' = [session EXCEPT ![c] = NoSession]
               /\ Reply(c, Response("check", 401, "Session expired"))
           ELSE
               /\ Reply(c, [op |-> "check", status |-> 200, msg |-> "exists",
                            exists |-> existing # {}])
               /\ UNCHANGED session
    /\ UNCHANGED <<store, nextSecret, now, storeUTC, season, cookie, hist>>

(***************************************************************************)
(* SpecAccess: access over time.  One join link of class CS101 was issued  *)
(* at instant 0; client c2 either has no session or logged in as student 1 *)
(* at instant 0, which bound that row to its device.                       *)
(* Clients join, log in, select and make session-guarded requests, one     *)
(* request at a time; the clock advances between requests, across the end  *)
(* of daylight time.                                                       *)
(***************************************************************************)
AccessJoinData ==
    {[student_name |-> "Zoe", student_id |-> "", team_id |-> 0,
      is_guest |-> TRUE],
     [student_name |-> "Ann Kim", student_id |-> "S456", team_id |-> 3,
      is_guest |-> FALSE]}

\* "Ann Kim (2)" is the name the join above leaves on the pre-added row
AccessCreds == {<<"Ann Kim", "S456">>, <<"Ann Kim (2)", "S456">>}

AccessGuestCreds == {<<"Zoe", "CS101">>}

\* 99 is the id of no Student
AccessSelectData ==
    {[student_id |-> 3, class_id |-> 1, team_id |-> 3],
     [student_id |-> 99, class_id |-> 1, team_id |-> 3]}

\* submits aimed at the Guests team: admitted by the guard, refused after
AccessSubmitData ==
    {d \in SubmitData : d.evaluated_team_id = 1 /\ d.team_comment = "good"}

InitAccess ==
    /\ season \in Seasons
    /\ \E dev \in {TokenDev, <<1, NoToken, NoToken, NoToken>>} :
         /\ InitStore(dev)
         /\ session = [c \in Clients |->
               IF c = "c2" /\ dev[1] # NoToken
               THEN LoggedIn(CHOOSE s \in InitStudents(dev) : s.id = 1)
               ELSE NoSession]
         /\ cookie = [c \in Clients |-> IF c = "c2" THEN dev[1] ELSE NoToken]
    /\ nextSecret = 4
    /\ now = 0
    /\ storeUTC \in BOOLEAN
    /\ access_tokens = {LinkIssuedAt0}
    /\ req = [c \in Clients |-> Idle]
    /\ resp = [c \in Clients |-> Pending]
    /\ hist = <<>>
    /\ nreq = MaxAccessRequests
    /\ inp = [c \in Clients |-> Pending]

AccessStep(c) ==
    \/ \E cr \in AccessCreds : login_student(c, cr[1], cr[2])
    \/ \E cr \in AccessGuestCreds : login_guest(c, cr[1], cr[2])
    \/ login_update(c)
    \/ \E data \in AccessSelectData : select_class(c, data)
    \/ select_class_update(c)
    \/ \E data \in AccessJoinData : join_class(c, 3, data)
    \/ get_unique_student_name(c)
    \/ join_class_guest_insert(c)
    \/ join_class_pre_added_update(c)
    \/ check_evaluation_exists(c, 1, 2)
    \/ \E data \in AccessSubmitData : submit_evaluation_begin(c, data)
    \/ submit_evaluation_team(c)

NextAccess ==
    \/ AllIdle /\ Tick
    \/ \E c \in Clients : Alone(c) /\ AccessStep(c)

SpecAccess == InitAccess /\ [][NextAccess]_vars

\* this step lets c's session-guarded request past its guard
Admitted(c) ==
    \/ /\ Begins(c, "check")
       /\ resp'[c].status = 200
    \/ /\ Begins(c, "submit")
       /\ req'[c].pc = "sub_team"

\* C12: join access cannot outlive the link: once a join has pinned a
\* Student's access_expires_at to the link's expiry X, no request made
\* later than X is admitted for that Student, neither a login or select
\* nor a guarded request on the session the join created.
C12_JoinAccessWithinLink ==
    [][\A c \in Clients :
         (\/ Admitted(c) /\ session[c].role = "student"
          \/ EstablishesSession(c, {"login_student", "login_guest", "select"}))
           => \A s \in students :
                (s.id = session'[c].user_id /\ s.access_expires_at # NoTime)
                   => now <= Instant(parse_iso_datetime(s.access_expires_at))]_vars

\* the pre-added rows a non-guest join with this payload matches
PreAdded(data) ==
    {s \in students : /\ s.student_id = data.student_id
                      /\ s.team_id = data.team_id
                      /\ s.is_pre_added}

\* C13: a successful non-guest join whose (external id, chosen team) match
\* a pre-added row updates exactly that row (name, access_expires_at and
\* device_token only) and leaves the number of rows as it was; one that
\* matches none inserts exactly one row.  However often a pre-added student
\* joins, there stays one row for that id in that team.
C13_PreAddedJoinUpdatesInPlace ==
    /\ [](\A s0 \in InitStudents(LoginDev) :
             s0.is_pre_added =>
               Cardinality({s \in students : /\ s.student_id = s0.student_id
                                             /\ s.team_id = s0.team_id}) = 1)
    /\ [][\A c \in Clients :
            (JoinSucceeds(c) /\ ~inp'[c].args.data.is_guest) =>
              LET data == inp'[c].args.data IN
              IF PreAdded(data) # {} THEN
                  \E s \in PreAdded(data) : \E t \in students' :
                     /\ students' \ {t} = students \ {s}
                     /\ Cardinality(students') = Cardinality(students)
                     /\ t = [s EXCEPT !.name = t.name,
                                      !.access_expires_at = t.access_expires_at,
                                      !.device_token = t.device_token]
                     /\ t.device_token = cookie'[c]
              ELSE
                  \E t \in students' :
                     /\ \A s \in students : s.id # t.id
                     /\ students' = students \cup {t}
                     /\ t.student_id = data.student_id
                     /\ t.team_id = data.team_id]_vars

C13_Witness ==
    /\ \A c \in Clients :
          /\ inp[c].op = "join"
          /\ inp[c].args.data.student_id = "S456"
          /\ resp[c] = Response("join", 200, "student_dashboard")
          /\ session[c].user_id = 3
    /\ Cardinality({s \in students : s.student_id = "S456"}) = 1

(***************************************************************************)
(* add_students_to_team (POST /api/teams/<id>/add-students).  The text is  *)
(* a sequence of lines, a line a sequence of words separated by one space. *)
(***************************************************************************)
RECURSIVE JoinWords(_)
JoinWords(words) ==
    IF Len(words) = 0 THEN ""
    ELSE IF Len(words) = 1 THEN words[1]
    ELSE words[1] \o " " \o JoinWords(Tail(words))

\* line.rsplit(' ', 1)
rsplit1(line) ==
    IF Len(line) < 2 THEN <<JoinWords(line)>>
    ELSE <<JoinWords(SubSeq(line, 1, Len(line) - 1)), line[Len(line)]>>

\* the first line from idx on that the loop body acts on
RECURSIVE NextLine(_, _, _)
NextLine(lines, idx, is_guest_team) ==
    IF idx > Len(lines) THEN idx
    ELSE IF is_guest_team \/ Len(rsplit1(lines[idx])) = 2 THEN idx
    ELSE NextLine(lines, idx + 1, is_guest_team)

\* "for line in lines": the name lookup of the next line, or the answer
AddStudentsLoop(c, r, idx, added) ==
    LET j == NextLine(r.lines, idx, r.is_guest_team) IN
    IF j > Len(r.lines) THEN
        Reply(c, [op |-> "add-students", status |-> 200, msg |-> "success",
                  added |-> added])
    ELSE
        /\ Goto(c, [r EXCEPT !.pc = "alloc", !.idx = j, !.added = added,
                             !.counter = 1,
                             !.original_name =
                                 IF r.is_guest_team THEN JoinWords(r.lines[j])
                                 ELSE rsplit1(r.lines[j])[1]])
        /\ resp' = [resp EXCEPT ![c] = Pending]

\* @teacher_required, then the team and class lookups
add_students_to_team(c, team_id, text) ==
    /\ Begin(c, "add-students", [team_id |-> team_id, text |-> text])
    /\ LET team == {t \in teams : t.id = team_id}
           lines == SelectSeq(text, LAMBDA line : line # <<>>)
       IN  IF session[c].role # "teacher" THEN
               Reply(c, Response("add-students", 401, "Unauthorized"))
           ELSE IF Cardinality(team) # 1 THEN
               Reply(c, Response("add-students", 500, "no rows returned"))
           ELSE
               \E t \in team :
                 LET is_guest_team == t.name = "Guests"
                     cls == {k \in classes : k.id = t.class_id}
                 IN  IF is_guest_team /\ Cardinality(cls) # 1 THEN
                         Reply(c, Response("add-students", 500,
                                           "no rows returned"))
                     ELSE
                         AddStudentsLoop(c,
                            [op |-> "add-students", pc |-> "alloc",
                             ret |-> "add_insert", lines |-> lines,
                             idx |-> 1, added |-> <<>>, team_id |-> team_id,
                             class_id |-> t.class_id,
                             is_guest_team |-> is_guest_team,
                             class_name |-> IF is_guest_team
                                            THEN (CHOOSE k \in cls : TRUE).name
                                            ELSE "",
                             original_name |-> "", counter |-> 1,
                             unique_name |-> ""],
                            1, <<>>)
    /\ UNCHANGED <<store, nextSecret, now, storeUTC, season, session, cookie, hist>>

\* variant that inserts the name as typed, not the allocated one
add_students_to_team_insert_as_typed(c) ==
    /\ req[c].pc = "add_insert"
    /\ LET r == req[c]
           student_id == IF r.is_guest_team THEN "non-student"
                         ELSE rsplit1(r.lines[r.idx])[2]
           passcode == IF r.is_guest_team THEN r.class_name ELSE student_id
       IN  /\ students' = students \cup
                {Student(nextId.students, r.original_name, student_id,
                         generate_password_hash(passcode), r.team_id,
                         r.class_id, ~r.is_guest_team, NoTime, NoToken)}
           /\ Bump("students")
           /\ AddStudentsLoop(c, r, r.idx + 1,
                 Append(r.added, [name |-> r.original_name,
                                  student_id |-> student_id]))
    /\ UNCHANGED <<teachers, classes, teams, assignments, access_tokens,
                   team_evaluations, member_evaluations, nextSecret, now,
                   storeUTC, season, session, cookie, hist, nreq, inp>>

\* the insert of one line's row, then the next line
add_students_to_team_insert(c) ==
    /\ req[c].pc = "add_insert"
    /\ LET r == req[c]
           student_id == IF r.is_guest_team THEN "non-student"
                         ELSE rsplit1(r.lines[r.idx])[2]
           passcode == IF r.is_guest_team THEN r.class_name ELSE student_id
       IN  /\ students' = students \cup
                {Student(nextId.students, r.unique_name, student_id,
                         generate_password_hash(passcode), r.team_id,
                         r.class_id, ~r.is_guest_team, NoTime, NoToken)}
           /\ Bump("students")
           /\ AddStudentsLoop(c, r, r.idx + 1,
                 Append(r.added, [name |-> r.unique_name,
                                  student_id |-> student_id]))
    /\ UNCHANGED <<teachers, classes, teams, assignments, access_tokens,
                   team_evaluations, member_evaluations, nextSecret, now,
                   storeUTC, season, session, cookie, hist, nreq, inp>>

(***************************************************************************)
(* SpecNamesSeq: display names.  The teacher is logged in on client c1;    *)
(* add-students, joins of every kind and teacher submits run one request   *)
(* at a time.                                                              *)
(***************************************************************************)
NameTexts ==
    {<<<<"Zoe", "Ray", "S777">>, <<"Zoe", "Ray", "S778">>>>,
     <<<<"Ann", "Kim">>, <<"Zoe">>, <<"Ann", "Kim">>>>}

NameTeams == {1, 3}

NameJoinData ==
    {[student_name |-> "Ann Kim", student_id |-> "", team_id |-> 0,
      is_guest |-> TRUE],
     [student_name |-> "Zoe Ray", student_id |-> "S456", team_id |-> 3,
      is_guest |-> FALSE],
     [student_name |-> "Zoe Ray", student_id |-> "S999", team_id |-> 3,
      is_guest |-> FALSE],
     [student_name |-> "Dr. X", student_id |-> "S999", team_id |-> 6,
      is_guest |-> FALSE]}

NameSubmitData ==
    {d \in SubmitData : d.evaluated_team_id = 2 /\ d.team_comment = "good"}

InitNames ==
    /\ season = "autumn"
    /\ InitStore(TokenDev)
    /\ nextSecret = 4
    /\ now = 0
    /\ storeUTC = FALSE
    /\ access_tokens = {LinkIssuedAt0}
    /\ session = [c \in Clients |->
          IF c = "c1" THEN TeacherSession(CHOOSE t \in InitTeachers : TRUE)
          ELSE NoSession]
    /\ cookie = [c \in Clients |-> NoToken]
    /\ req = [c \in Clients |-> Idle]
    /\ resp = [c \in Clients |-> Pending]
    /\ hist = <<>>
    /\ nreq = MaxNameRequests
    /\ inp = [c \in Clients |-> Pending]

NameStep(c) ==
    \/ \E team_id \in NameTeams, text \in NameTexts :
          add_students_to_team(c, team_id, text)
    \/ add_students_to_team_insert(c)
    \/ get_unique_student_name(c)
    \/ \E data \in NameJoinData : join_class(c, 3, data)
    \/ join_class_guest_insert(c)
    \/ join_class_new_insert(c)
    \/ join_class_pre_added_update(c)
    \/ \E data \in NameSubmitData : submit_evaluation_begin(c, data)
    \/ submit_evaluation_team(c)
    \/ get_or_create_teacher_student_record_team(c)
    \/ get_or_create_teacher_student_record_team_insert(c)
    \/ get_or_create_teacher_student_record_student(c)
    \/ get_or_create_teacher_student_record_student_insert(c)
    \/ submit_evaluation_existing(c)
    \/ submit_evaluation_delete_members(c)
    \/ submit_evaluation_delete_te(c)
    \/ submit_evaluation_insert_te(c)
    \/ submit_evaluation_insert_member(c)

NextNamesSeq == \E c \in Clients : Alone(c) /\ NameStep(c)

SpecNamesSeq == InitNames /\ [][NextNamesSeq]_vars

\* the display names in use in team T
NamesOf(T) == {s.name : s \in {x \in students : x.team_id = T}}

\* the allocator returns to its caller in this step
AllocReturns(c) == req[c].pc = "alloc" /\ req'[c].pc # "alloc"

\* C14: allocate(N, T) returns N when T has no Student named N, and
\* "N (2)" when T has N but not "N (2)"; so of two calls in sequence on a
\* team that had neither, the first result being inserted in between, the
\* first returns N and the second "N (2)", never the same value.
C14_AllocateTwice ==
    [][\A c \in Clients :
         AllocReturns(c) =>
           LET N == req[c].original_name
               T == req[c].team_id
               got == req'[c].unique_name
           IN  /\ got \notin NamesOf(T)
               /\ N \notin NamesOf(T) => got = N
               /\ (N \in NamesOf(T) /\ (N \o " (2)") \notin NamesOf(T))
                     => got = N \o " (2)"
               /\ (/\ req[c].op = "add-students"
                   /\ req[c].added # <<>>
                   /\ req[c].added[Len(req[c].added)].name = N
                   /\ (N \o " (2)") \notin NamesOf(T))
                     => /\ got = N \o " (2)"
                        /\ got # req[c].added[Len(req[c].added)].name]_vars

C14_Witness ==
    \E c \in Clients :
       /\ inp[c].op = "add-students"
       /\ resp[c].op = "add-students"
       /\ resp[c].status = 200
       /\ Len(resp[c].added) = 2
       /\ resp[c].added[1].name = "Zoe Ray"
       /\ resp[c].added[2].name = "Zoe Ray (2)"
       /\ {"Zoe Ray", "Zoe Ray (2)"} \subseteq NamesOf(inp[c].args.team_id)

\* C15: whatever series of add-students, guest joins, pre-added joins,
\* net-new joins and teacher-proxy bootstraps has run, one at a time, no two
\* Student rows of the same team have the same display name.
C15_NamesUniquePerTeam ==
    \A s \in students : \A t \in students :
       (s.team_id = t.team_id /\ s.name = t.name) => s.id = t.id

C15_Witness ==
    /\ AllIdle
    /\ \E s \in students : s.team_id = 3 /\ s.name = "Zoe Ray (3)"
    /\ \E s \in students : s.student_id = "S456" /\ s.name # "Ann Kim"
    /\ \E s \in students : s.student_id = "teacher"

(***************************************************************************)
(* Properties of the teacher-proxy bootstrap.                              *)
(***************************************************************************)
TeachersTeams(class_id) ==
    {t \in teams : t.class_id = class_id /\ t.name = "Teachers"}

\* the Student rows named X in the "Teachers" team of the class
Proxies(X, class_id) ==
    {s \in students : /\ s.name = X
                      /\ \E t \in TeachersTeams(class_id) : s.team_id = t.id}

\* C16: the teacher-proxy bootstrap is idempotent.  Once a submit by the
\* teacher named X on an assignment of class C has been recorded, C has
\* exactly one team named "Teachers" and exactly one Student named X in it;
\* every later submit by the teacher records that row's id as evaluator
\* and adds neither a team nor a proxy.
C16_TeacherProxyIdempotent ==
    /\ [](\A teacher \in teachers : \A a \in assignments :
            /\ Cardinality(TeachersTeams(a.class_id)) <= 1
            /\ Cardinality(Proxies(teacher.name, a.class_id)) <= 1
            /\ \A c \in Clients :
                 (/\ session[c] = TeacherSession(teacher)
                  /\ inp[c].op = "submit"
                  /\ inp[c].args.assignment_id = a.id
                  /\ resp[c] = Response("submit", 200, "success"))
                   => /\ Cardinality(TeachersTeams(a.class_id)) = 1
                      /\ Cardinality(Proxies(teacher.name, a.class_id)) = 1)
    /\ [][\A c \in Clients : \A teacher \in teachers : \A a \in assignments :
            (/\ session[c] = TeacherSession(teacher)
             /\ req[c].pc # "idle"
             /\ req[c].op = "submit"
             /\ req[c].data.assignment_id = a.id)
              => /\ TeachersTeams(a.class_id) # {} => teams' = teams
                 /\ Proxies(teacher.name, a.class_id) # {}
                       => students' = students
                 /\ hist' # hist =>
                      \E s \in Proxies(teacher.name, a.class_id) :
                         hist'[Len(hist')].evaluator_student_id = s.id]_vars

C16_Witness ==
    /\ Len(hist) = 2
    /\ hist[1].evaluator_student_id = hist[2].evaluator_student_id
    /\ Cardinality(TeachersTeams(1)) = 1
    /\ \E s \in Proxies("Dr. X", 1) :
          /\ s.student_id = "teacher"
          /\ s.id = hist[1].evaluator_student_id

(***************************************************************************)
(* Properties of session and access expiry.                                *)
(***************************************************************************)
\* C17: every path that creates a student session records the instant of
\* creation in created_at.  A session-guarded request made more than four
\* hours after it clears the session and answers "Session expired", after
\* which requests are unauthorized until a session is established again;
\* one made at most four hours after it is admitted.
C17_SessionWindow ==
    /\ [](\A c \in Clients :
             session[c].role = "student" => session[c].created_at # NoTime)
    /\ [][\A c \in Clients :
            /\ (session'[c] # session[c] /\ session'[c].role = "student")
                  => Instant(parse_iso_datetime(session'[c].created_at)) = now
            /\ (Begins(c, "check") \/ Begins(c, "submit")) =>
                  IF session[c].role = "student" THEN
                      IF now - Instant(parse_iso_datetime(session[c].created_at))
                            > SessionHours
                      THEN /\ session'[c] = NoSession
                           /\ resp'[c] = Response(inp'[c].op, 401,
                                                  "Session expired")
                      ELSE /\ Admitted(c)
                           /\ session'[c] = session[c]
                  ELSE /\ resp'[c] = Response(inp'[c].op, 401, "Unauthorized")
                       /\ session'[c] = session[c]]_vars

\* a client that held a session (it has a device cookie) lost it to the
\* check and has since been refused
C17_Witness ==
    \E c \in Clients :
       /\ cookie[c] # NoToken
       /\ session[c] = NoSession
       /\ resp[c] = Response("submit", 401, "Unauthorized")
       /\ now > FallBack + SessionHours

\* the rows a guest login with these arguments resolves to
GuestMatching(args) ==
    {s \in students : /\ s.name = args.name
                      /\ s.student_id \in {"non-student", ""}
                      /\ s.passcode = generate_password_hash(args.passcode)}

\* the Student's access_expires_at is set and earlier than the current time
PastExpiry(s) ==
    /\ s.access_expires_at # NoTime
    /\ Instant(parse_iso_datetime(s.access_expires_at)) < now

\* C18: expiry is checked before device binding: a student or guest login
\* that resolves to a single Student whose access_expires_at is set and
\* earlier than the current time answers "Access has expired" whatever
\* device cookie is presented, and neither mints nor persists a
\* device_token.
C18_ExpiryBeforeDevice ==
    [][\A c \in Clients :
         LET rows == IF inp'[c].op = "login_student"
                     THEN Matching(inp'[c].args)
                     ELSE GuestMatching(inp'[c].args)
         IN  ((Begins(c, "login_student") \/ Begins(c, "login_guest"))
                /\ Cardinality(rows) = 1
                /\ \A s \in rows : PastExpiry(s))
               => /\ resp'[c] = Response("login", 401, "Access has expired")
                  /\ students' = students
                  /\ nextSecret' = nextSecret
                  /\ session'[c] = session[c]]_vars

(***************************************************************************)
(* SpecCreds: the three kinds of login with good credentials, a wrong      *)
(* secret and an unknown account.  The store is that of SpecLogin.         *)
(***************************************************************************)
TeacherCreds ==
    {<<"x@monmouth.edu", "pw">>, <<"x@monmouth.edu", "bad">>,
     <<"nobody@monmouth.edu", "pw">>}

CredGuestCreds ==
    {<<"Pat", "CS101">>, <<"Pat", "bad">>, <<"Nobody", "CS101">>}

InitCreds ==
    /\ season = "autumn"
    /\ InitStore(LoginDev)
    /\ nextSecret = 4
    /\ now = 0
    /\ storeUTC = FALSE
    /\ access_tokens = {LinkIssuedAt0}
    /\ session = [c \in Clients |-> NoSession]
    /\ cookie = [c \in Clients |-> IF c = "c1" THEN 2 ELSE NoToken]
    /\ req = [c \in Clients |-> Idle]
    /\ resp = [c \in Clients |-> Pending]
    /\ hist = <<>>
    /\ nreq = MaxCredRequests
    /\ inp = [c \in Clients |-> Pending]

CredStep(c) ==
    \/ \E cr \in TeacherCreds : login_teacher(c, cr[1], cr[2])
    \/ \E cr \in LoginCreds : login_student(c, cr[1], cr[2])
    \/ \E cr \in CredGuestCreds : login_guest(c, cr[1], cr[2])
    \/ login_update(c)

NextCreds == \E c \in Clients : CredStep(c)

SpecCreds == InitCreds /\ [][NextCreds]_vars

\* c's latest request is a login that has been answered
Answered(c) ==
    /\ req[c].pc = "idle"
    /\ inp[c].op \in {"login_teacher", "login_student", "login_guest"}
    /\ resp[c] # Pending

\* the rows the login's lookup by email or name returns
Account(i) ==
    IF i.op = "login_teacher" THEN {t \in teachers : t.email = i.args.email}
    ELSE IF i.op = "login_student"
         THEN {s \in students : s.name = i.args.student_name}
    ELSE {s \in students : s.name = i.args.name}

\* the rows among them that the secret verifies
Verified(i) ==
    IF i.op = "login_teacher"
    THEN {t \in Account(i) : t.password = generate_password_hash(i.args.password)}
    ELSE {s \in Account(i) : s.passcode = generate_password_hash(i.args.passcode)}

C20_TokenReusableUntilExpiry ==
    [][\A c \in Clients :
         /\ (Begins(c, "join") \/ (req[c].pc # "idle" /\ req[c].op = "join"))
               => access_tokens' = access_tokens
         /\ Begins(c, "join") =>
               \A t \in access_tokens :
                  t.token = inp'[c].args.token =>
                     IF now > Instant(parse_iso_datetime(t.expires_at))
                     THEN resp'[c] = Response("join", 400, "Token expired")
                     ELSE req'[c].pc # "idle"]_vars

(***************************************************************************)
(* SpecGuest: guest joins and guest logins over time.  One join link of    *)
(* class CS101 was issued at instant 0; the teacher has or has not deleted *)
(* the class's "Guests" team (delete_team, which also deletes its rows).   *)
(* Requests run one at a time and the clock advances between them.         *)
(***************************************************************************)
GuestJoinData ==
    {[student_name |-> n, student_id |-> "", team_id |-> 0, is_guest |-> TRUE]
        : n \in {"Zoe", "Pat"}}

GuestLoginCreds ==
    {<<"Zoe", "CS101">>, <<"Pat", "CS101">>, <<"Pat (2)", "CS101">>,
     <<"Zoe (2)", "CS101">>}

InitGuest ==
    /\ season \in Seasons
    /\ storeUTC \in BOOLEAN
    /\ teachers = InitTeachers
    /\ classes = InitClasses
    /\ assignments = InitAssignments
    /\ \E deleted \in {{}, {1}} :
         /\ teams = {t \in InitTeams : t.id \notin deleted}
         /\ students = {s \in InitStudents(TokenDev) : s.team_id \notin deleted}
    /\ team_evaluations = {}
    /\ member_evaluations = {}
    /\ nextId = [teams |-> 6, students |-> 5, team_evaluations |-> 1,
                 member_evaluations |-> 1]
    /\ access_tokens = {LinkIssuedAt0}
    /\ nextSecret = 4
    /\ now = 0
    /\ session = [c \in Clients |-> NoSession]
    /\ cookie = [c \in Clients |-> NoToken]
    /\ req = [c \in Clients |-> Idle]
    /\ resp = [c \in Clients |-> Pending]
    /\ hist = <<>>
    /\ nreq = MaxGuestRequests
    /\ inp = [c \in Clients |-> Pending]

GuestStep(c) ==
    \/ \E data \in GuestJoinData : join_class(c, 3, data)
    \/ join_class_guests_team_insert(c)
    \/ get_unique_student_name(c)
    \/ join_class_guest_insert(c)
    \/ \E cr \in GuestLoginCreds : login_guest(c, cr[1], cr[2])
    \/ login_update(c)

NextGuest ==
    \/ AllIdle /\ Tick
    \/ \E c \in Clients : Alone(c) /\ GuestStep(c)

SpecGuest == InitGuest /\ [][NextGuest]_vars

GuestsTeams(class_id) ==
    {t \in teams : t.class_id = class_id /\ t.name = "Guests"}

\* the rows a guest join has inserted: guest sentinel, expiry and device set
JoinedGuests ==
    {s \in students : /\ s.student_id = ""
                      /\ s.access_expires_at # NoTime
                      /\ s.device_token # NoToken}

\* C21: a guest join with a valid token of class C inserts exactly one
\* Student, in C's "Guests" team (created only when C has none), with a
\* name unique in that team, a guest sentinel student_id and C's name as
\* passcode; and a later guest login with that name, C's name as passcode
\* and the device cookie of the join, made before access_expires_at,
\* establishes the session of that Student.
C21_GuestJoin ==
    [][\A c \in Clients :
         /\ (req[c].pc # "idle" /\ req[c].op = "join" /\ req[c].data.is_guest)
              => /\ teams' # teams =>
                      /\ {t \in teams : t.class_id = req[c].class_id
                                        /\ t.name = "Guests"} = {}
                      /\ \E t \in teams' :
                           /\ teams' = teams \cup {t}
                           /\ t.name = "Guests"
                           /\ t.class_id = req[c].class_id
                 /\ students' # students => JoinSucceeds(c)
         /\ (JoinSucceeds(c) /\ inp'[c].args.data.is_guest) =>
              \E k \in access_tokens : \E cl \in classes : \E t \in students' :
                 /\ k.token = inp'[c].args.token
                 /\ cl.id = k.class_id
                 /\ students' = students \cup {t}
                 /\ \A s \in students : s.id # t.id
                 /\ t.id = session'[c].user_id
                 /\ t.class_id = cl.id
                 /\ \E g \in GuestsTeams(cl.id) : t.team_id = g.id
                 /\ \A s \in students : s.team_id = t.team_id => s.name # t.name
                 /\ t.student_id \in {"non-student", ""}
                 /\ check_password_hash(t.passcode, cl.name)
         /\ Begins(c, "login_guest") =>
              \A t \in JoinedGuests : \A cl \in classes :
                 (/\ cl.id = t.class_id
                  /\ inp'[c].args = [name |-> t.name, passcode |-> cl.name]
                  /\ cookie[c] = t.device_token
                  /\ now <= Instant(parse_iso_datetime(t.access_expires_at)))
                   => /\ resp'[c] = Response("login", 200, "student_dashboard")
                      /\ session'[c].user_id = t.id]_vars

(***************************************************************************)
(* Properties of submit under failure and concurrency.                     *)
(***************************************************************************)
\* C22: the store never holds the TeamEvaluation row of a submit that is
\* still running and has MemberEvaluations left to insert: what a reader
\* (exists check, report, listing) finds is never the owning row ahead of
\* its member rows, unless the submit was already answered as failed.
C22_OwnerNotVisibleBeforeMembers ==
    \A c \in Clients :
       (req[c].pc = "sub_insert_member")
          => \A e \in team_evaluations : e.id # req[c].te_id

(***************************************************************************)
(* SpecRetry: submits one at a time on a store whose calls may raise.      *)
(* Each client holds the session of student 1 or of the teacher and        *)
(* submits evaluations of team 3; a failed submit may be run again.        *)
(***************************************************************************)
RetrySubmitData == {d \in SubmitData : d.evaluated_team_id = 3}

InitRetry ==
    /\ season = "autumn"
    /\ InitStore(EvalDev)
    /\ access_tokens = {}
    /\ nextSecret = 3
    /\ now = 0
    /\ storeUTC = FALSE
    /\ \E who \in [Clients -> {1, 0}] :
         /\ session = [c \in Clients |->
               IF who[c] = 0 THEN TeacherSession(CHOOSE t \in InitTeachers : TRUE)
               ELSE LoggedIn(CHOOSE s \in InitStudents(EvalDev) : s.id = who[c])]
         /\ cookie = [c \in Clients |->
               IF who[c] = 0 THEN NoToken ELSE EvalDev[who[c]]]
    /\ req = [c \in Clients |-> Idle]
    /\ resp = [c \in Clients |-> Pending]
    /\ hist = <<>>
    /\ nreq = MaxRetryRequests
    /\ inp = [c \in Clients |-> Pending]

RetryStep(c) ==
    \/ \E data \in RetrySubmitData : submit_evaluation_begin(c, data)
    \/ submit_evaluation_team(c)
    \/ get_or_create_teacher_student_record_team(c)
    \/ get_or_create_teacher_student_record_team_insert(c)
    \/ get_or_create_teacher_student_record_student(c)
    \/ get_or_create_teacher_student_record_student_insert(c)
    \/ submit_evaluation_existing(c)
    \/ submit_evaluation_delete_members(c)
    \/ submit_evaluation_delete_te(c)
    \/ submit_evaluation_insert_te(c)
    \/ submit_evaluation_insert_member(c)
    \/ handler_except(c)

NextRetry == \E c \in Clients : Alone(c) /\ RetryStep(c)

SpecRetry == InitRetry /\ [][NextRetry]_vars

\* HoldsExactly over given tables: tes and mes hold exactly the bundle of h
HoldsExactlyIn(h, tes, mes) ==
    LET b == {e \in tes : /\ e.assignment_id = h.data.assignment_id
                          /\ e.evaluated_team_id = h.data.evaluated_team_id
                          /\ e.evaluator_student_id = h.evaluator_student_id}
    IN  /\ Cardinality(b) = 1
        /\ \A e \in b :
             LET rows == {m \in mes : m.team_evaluation_id = e.id} IN
             /\ e.team_comment = h.data.team_comment
             /\ e.team_score = h.data.team_score
             /\ {[student_id |-> m.evaluated_student_id, comment |-> m.comment,
                  score |-> m.score] : m \in rows} = PayloadEntries(h.data)
             /\ Cardinality(rows) = Len(h.data.member_evaluations)

\* C23: submit is safely retryable.  Whatever prefix of their store calls
\* earlier attempts ran before failing, a submit that runs to completion
\* leaves exactly one TeamEvaluation for its triple, carrying the payload's
\* comment, score and member entries, as one uninterrupted submit does; and
\* a lookup or delete that finds nothing left to delete ends no submit:
\* only a failing store call does.
C23_SubmitRetryable ==
    [][\A c \in Clients :
         /\ (Completes(c) /\ resp'[c] = Response("submit", 200, "success"))
               => /\ hist' # hist
                  /\ hist'[Len(hist')].data = inp'[c].args
                  /\ HoldsExactlyIn(hist'[Len(hist')], team_evaluations',
                                    member_evaluations')
         /\ (/\ req[c].pc \in {"sub_existing", "sub_delete_members",
                               "sub_delete_te"}
             /\ req'[c].pc = "idle")
               => resp'[c] = Response("submit", 500, "store error")]_vars

\* a submit completed after an attempt that had inserted its TeamEvaluation
\* and one of two member rows, and after one that had deleted member rows
C23_Witness ==
    /\ AllIdle
    /\ Len(hist) = 1
    /\ HoldsExactly(hist[1])
    /\ Len(hist[1].data.member_evaluations) = 2
    /\ nextId.team_evaluations = 4
    /\ nextId.member_evaluations = 5
    /\ Cardinality(team_evaluations) = 1
    /\ Cardinality(member_evaluations) = 2

(***************************************************************************)
(* Properties under races.                                                 *)
(***************************************************************************)
\* C24: name allocation is race-tolerant: however concurrent joins (or
\* add-students calls) asking for the same display name in the same team
\* interleave, every team has as many distinct display names as rows.
C24_NamesUniqueUnderRaces ==
    \A T \in {s.team_id : s \in students} :
       Cardinality(NamesOf(T)) = Cardinality({s \in students : s.team_id = T})

\* c's latest request was a student or guest login or a select that was
\* answered with a session and a device cookie
HoldsDevice(c) ==
    /\ req[c].pc = "idle"
    /\ inp[c].op \in {"login_student", "login_guest", "select"}
    /\ resp[c] = Response(IF inp[c].op = "select" THEN "select" ELSE "login",
                          200, "student_dashboard")

\* C25: device binding is first-writer-wins under races: once the requests
\* have been answered, every device token handed out with a successful
\* login or select is the one persisted on the Student, so two successful
\* logins for one Student never hold different tokens.
C25_FirstWriterWins ==
    AllIdle =>
      \A c \in Clients :
         HoldsDevice(c) =>
           /\ \A s \in students :
                s.id = session[c].user_id => s.device_token = cookie[c]
           /\ \A d \in Clients :
                (HoldsDevice(d) /\ session[d].user_id = session[c].user_id)
                   => cookie[d] = cookie[c]

(***************************************************************************)
(* SpecAlloc: the name allocator on its own.  Team 2 ("Team 1" of CS101)   *)
(* starts with any set of rows named "Zoe", "Zoe (2)" .. "Zoe (MaxSuffix)" *)
(* next to "Mike Lee"; net-new joins asking for "Zoe" or "Mike Lee" run    *)
(* the allocator, one request at a time.                                   *)
(***************************************************************************)
Suffixed(N, n) == IF n = 1 THEN N ELSE N \o " (" \o ToString(n) \o ")"

AllocJoinData ==
    {[student_name |-> n, student_id |-> "S999", team_id |-> 2,
      is_guest |-> FALSE] : n \in {"Zoe", "Mike Lee"}}

InitAlloc ==
    /\ season = "autumn"
    /\ storeUTC = FALSE
    /\ teachers = InitTeachers
    /\ classes = InitClasses
    /\ teams = InitTeams
    /\ assignments = InitAssignments
    /\ \E taken \in SUBSET (1..MaxSuffix) :
         students = InitStudents(TokenDev) \cup
            {Student(10 + n, Suffixed("Zoe", n), "S70" \o ToString(n),
                     generate_password_hash("S70" \o ToString(n)), 2, 1,
                     TRUE, NoTime, NoToken) : n \in taken}
    /\ team_evaluations = {}
    /\ member_evaluations = {}
    /\ nextId = [teams |-> 6, students |-> 11 + MaxSuffix,
                 team_evaluations |-> 1, member_evaluations |-> 1]
    /\ access_tokens = {LinkIssuedAt0}
    /\ nextSecret = 4
    /\ now = 0
    /\ session = [c \in Clients |-> NoSession]
    /\ cookie = [c \in Clients |-> NoToken]
    /\ req = [c \in Clients |-> Idle]
    /\ resp = [c \in Clients |-> Pending]
    /\ hist = <<>>
    /\ nreq = MaxAllocRequests
    /\ inp = [c \in Clients |-> Pending]

AllocStep(c) ==
    \/ \E data \in AllocJoinData : join_class(c, 3, data)
    \/ get_unique_student_name(c)
    \/ join_class_new_insert(c)

NextAlloc == \E c \in Clients : Alone(c) /\ AllocStep(c)

SpecAlloc == InitAlloc /\ [][NextAlloc]_vars

\* the reference: N if free, else "N (n)" for the least n >= 2 that is free
FreeSuffixes(N, names) ==
    {n \in 2..(MaxSuffix + MaxAllocRequests + 1) : Suffixed(N, n) \notin names}

LeastFree(N, names) ==
    IF N \notin names THEN N
    ELSE Suffixed(N, CHOOSE n \in FreeSuffixes(N, names) :
                        \A m \in FreeSuffixes(N, names) : n <= m)

\* C26: allocate(N, T) returns N when no Student of T is named N, and
\* otherwise "N (n)" for the smallest n >= 2 such that no Student of T is
\* named "N (n)", also when the names in use have gaps.
C26_AllocateLeastFree ==
    [][\A c \in Clients :
         AllocReturns(c) =>
           req'[c].unique_name
              = LeastFree(req[c].original_name, NamesOf(req[c].team_id))]_vars

\* the names in use had a gap: "Zoe" and "Zoe (3)" taken, "Zoe (2)" given
C26_Witness ==
    \E c \in Clients :
       /\ req[c].pc = "join_new_insert"
       /\ req[c].unique_name = "Zoe (2)"
       /\ {"Zoe", "Zoe (3)"} \subseteq NamesOf(2)
       /\ "Zoe (2)" \notin NamesOf(2)

\* the rows a select with this payload reads
Selected(data) == {s \in students : s.id = data.student_id}

\* C27: select re-validates expiry: for a Student whose access_expires_at is
\* set and earlier than the current time it answers "Access has expired",
\* establishes no session and persists no device_token; for an unknown
\* student_id it answers "Student not found" and establishes no session.
C27_SelectRevalidatesExpiry ==
    [][\A c \in Clients :
         Begins(c, "select") =>
           LET rows == Selected(inp'[c].args) IN
           /\ rows = {}
                => /\ resp'[c] = Response("select", 404, "Student not found")
                   /\ session'[c] = session[c]
           /\ (rows # {} /\ \A s \in rows : PastExpiry(s))
                => /\ resp'[c] = Response("select", 401, "Access has expired")
                   /\ students' = students
                   /\ nextSecret' = nextSecret
                   /\ session'[c] = session[c]]_vars

(***************************************************************************)
(* SpecSentinel: guest login against a store that holds guests, enrolled   *)
(* students and the teacher's proxy row.  The second class may carry the   *)
(* name of the first, so that one guest name and passcode can match a row  *)
(* in each.                                                                *)
(***************************************************************************)
\* the proxy row as get_or_create_teacher_student_record writes it, and a
\* guest of the second class as add_students_to_team writes it
SentinelStudents(dev, second) ==
    InitStudents(dev) \cup
    {Student(5, "Pat", "non-student", generate_password_hash(second), 4, 2,
             FALSE, NoTime, NoToken),
     Student(6, "Dr. X", "teacher", generate_password_hash("teacher"), 6, 1,
             FALSE, NoTime, NoToken)}

SentinelCreds ==
    {<<"Pat", "CS101">>, <<"Pat", "bad">>, <<"Nobody", "CS101">>,
     <<"Ann Kim", "S456">>, <<"Mike Lee", "S123">>, <<"Dr. X", "teacher">>}

InitSentinel ==
    /\ season = "autumn"
    /\ storeUTC = FALSE
    /\ teachers = InitTeachers
    /\ assignments = InitAssignments
    /\ teams = InitTeams \cup {[id |-> 6, name |-> "Teachers", class_id |-> 1]}
    /\ \E second \in {"CS101", "CS102"}, dev4 \in {NoToken, 1} :
         /\ classes = {[id |-> 1, name |-> "CS101"], [id |-> 2, name |-> second]}
         /\ students = SentinelStudents(<<NoToken, NoToken, NoToken, dev4>>, second)
    /\ team_evaluations = {}
    /\ member_evaluations = {}
    /\ nextId = [teams |-> 7, students |-> 7, team_evaluations |-> 1,
                 member_evaluations |-> 1]
    /\ access_tokens = {}
    /\ nextSecret = 4
    /\ now = 0
    /\ session = [c \in Clients |-> NoSession]
    /\ cookie = [c \in Clients |-> IF c = "c1" THEN 1 ELSE NoToken]
    /\ req = [c \in Clients |-> Idle]
    /\ resp = [c \in Clients |-> Pending]
    /\ hist = <<>>
    /\ nreq = MaxSentinelRequests
    /\ inp = [c \in Clients |-> Pending]

SentinelStep(c) ==
    \/ \E cr \in SentinelCreds : login_guest(c, cr[1], cr[2])
    \/ \E cr \in SentinelCreds : login_student(c, cr[1], cr[2])
    \/ login_update(c)

NextSentinel == \E c \in Clients : SentinelStep(c)

SpecSentinel == InitSentinel /\ [][NextSentinel]_vars

\* the row carries the guest sentinel in student_id
IsGuestRow(s) == s.student_id \in {"non-student", ""}

\* the rows of the name that verify against the passcode, guest or not
Verifying(args) ==
    {s \in students : /\ s.name = args.name
                      /\ check_password_hash(s.passcode, args.passcode)}

ReloginDev == <<NoToken, NoToken, 2, 1>>

InitRelogin ==
    /\ season = "autumn"
    /\ storeUTC = FALSE
    /\ InitStore(ReloginDev)
    /\ access_tokens = {}
    /\ nextSecret = 4
    /\ now = 0
    /\ \E s \in InitStudents(ReloginDev) :
         /\ s.id = 3
         /\ session = [c \in Clients |-> IF c = "c2" THEN LoggedIn(s)
                                         ELSE NoSession]
    /\ cookie = [c \in Clients |-> IF c = "c2" THEN 2 ELSE 1]
    /\ req = [c \in Clients |-> Idle]
    /\ resp = [c \in Clients |-> Pending]
    /\ hist = <<>>
    /\ nreq = MaxReloginRequests
    /\ inp = [c \in Clients |-> Pending]

ReloginStep(c) ==
    \/ login_student(c, "Ann Kim", "S456")
    \/ login_guest(c, "Pat", "CS101")
    \/ check_evaluation_exists(c, 1, 2)
    \/ logout(c)

NextRelogin ==
    \/ AllIdle /\ Tick
    \/ \E c \in Clients : Alone(c) /\ ReloginStep(c)

SpecRelogin == InitRelogin /\ [][NextRelogin]_vars

\* c holds no session, or one that the 4-hour check will clear
SessionOver(c) == session[c].role = "none" \/ SessionTooOld(session[c])

FailedLogin ==
    {Response("login", 401, "Invalid credentials"),
     Response("login", 401, "Invalid passcode"),
     Response("login", 401, "Guest account not found or invalid passcode."),
     Response("login", 401, "Login restricted to the original device"),
     Response("login", 401, "Access has expired")}

\* this step changes no table, mints no token and leaves c's session alone
NoEffect(c) ==
    /\ store' = store
    /\ nextSecret' = nextSecret
    /\ session'[c] = session[c]
    /\ cookie'[c] = cookie[c]

\* C30: failed authentication has no side effects: a teacher, student or
\* guest login answered with invalid credentials, device mismatch, expired
\* access or a candidate list, and a join whose token is unknown or past
\* its expires_at, leave every table unchanged (no Student inserted or
\* updated, no device_token minted, no team created) and establish no
\* session.
C30_FailedAuthNoEffects ==
    [][\A c \in Clients :
         /\ ((Begins(c, "login_teacher") \/ Begins(c, "login_student")
                \/ Begins(c, "login_guest"))
               /\ Completes(c)
               /\ (resp'[c] \in FailedLogin
                     \/ resp'[c].msg = "multiple_classes"))
              => NoEffect(c)
         /\ (Begins(c, "join")
               /\ \A t \in access_tokens :
                    t.token = inp'[c].args.token
                      => now > Instant(parse_iso_datetime(t.expires_at)))
              => /\ Completes(c)
                 /\ resp'[c].status = 400
                 /\ NoEffect(c)]_vars

(***************************************************************************)
(* generate_report (GET /api/teacher/report/<student_id>/<assignment_id>): *)
(* four selects, the first two with .single(), which raises unless exactly *)
(* one row is found.                                                       *)
(***************************************************************************)
\* the embedded evaluator:students!evaluator_student_id(name)
evaluator_name(te) == {s.name : s \in {x \in students : x.id = te.evaluator_student_id}}

generate_report(c, student_id, assignment_id) ==
    /\ Begin(c, "report", [student_id |-> student_id,
                           assignment_id |-> assignment_id])
    /\ LET student == {s \in students : s.id = student_id}
           assignment == {a \in assignments : a.id = assignment_id}
       IN  IF session[c].role # "teacher" THEN
               Reply(c, Response("report", 401, "Unauthorized"))
           ELSE IF Cardinality(student) # 1 \/ Cardinality(assignment) # 1 THEN
               Reply(c, Response("report", 500, "no rows returned"))
           ELSE
               \E s \in student, a \in assignment :
                 LET team_evals ==
                       {[row |-> e, evaluator |-> evaluator_name(e)] :
                          e \in {x \in team_evaluations :
                                   /\ x.assignment_id = assignment_id
                                   /\ x.evaluated_team_id = s.team_id}}
                     member_evals ==
                       {[row |-> m,
                         evaluator |-> UNION {evaluator_name(e) :
                            e \in {x \in team_evaluations :
                                     x.id = m.team_evaluation_id}}] :
                          m \in {x \in member_evaluations :
                                   x.evaluated_student_id = student_id}}
                 IN  Reply(c, [op |-> "report", status |-> 200,
                               msg |-> "report", student |-> s,
                               assignment |-> a,
                               team_evaluations |-> team_evals,
                               member_evaluations |-> member_evals])
    /\ UNCHANGED <<store, nextSecret, now, storeUTC, season, session, cookie, hist>>

(***************************************************************************)
(* SpecRead: the two read operations between submits.  Each client holds   *)
(* the session of student 1 or of the teacher; the clock advances between  *)
(* requests, so a student session may be past its four hours when it is    *)
(* used.                                                                   *)
(***************************************************************************)
ReadCheckArgs == {<<1, 3>>, <<1, 2>>, <<2, 3>>}

ReadReportArgs == {<<3, 1>>, <<1, 1>>, <<99, 1>>, <<3, 2>>}

InitRead ==
    /\ season = "autumn"
    /\ InitStore(EvalDev)
    /\ access_tokens = {}
    /\ nextSecret = 3
    /\ now = 0
    /\ storeUTC = FALSE
    /\ \E who \in [Clients -> {1, 0}] :
         /\ session = [c \in Clients |->
               IF who[c] = 0 THEN TeacherSession(CHOOSE t \in InitTeachers : TRUE)
               ELSE LoggedIn(CHOOSE s \in InitStudents(EvalDev) : s.id = who[c])]
         /\ cookie = [c \in Clients |->
               IF who[c] = 0 THEN NoToken ELSE EvalDev[who[c]]]
    /\ req = [c \in Clients |-> Idle]
    /\ resp = [c \in Clients |-> Pending]
    /\ hist = <<>>
    /\ nreq = MaxReadRequests
    /\ inp = [c \in Clients |-> Pending]

ReadStep(c) ==
    \/ \E data \in RetrySubmitData : submit_evaluation_begin(c, data)
    \/ submit_evaluation_team(c)
    \/ get_or_create_teacher_student_record_team(c)
    \/ get_or_create_teacher_student_record_team_insert(c)
    \/ get_or_create_teacher_student_record_student(c)
    \/ get_or_create_teacher_student_record_student_insert(c)
    \/ submit_evaluation_existing(c)
    \/ submit_evaluation_delete_members(c)
    \/ submit_evaluation_delete_te(c)
    \/ submit_evaluation_insert_te(c)
    \/ submit_evaluation_insert_member(c)
    \/ \E a \in ReadCheckArgs : check_evaluation_exists(c, a[1], a[2])
    \/ \E a \in ReadReportArgs : generate_report(c, a[1], a[2])

NextRead ==
    \/ AllIdle /\ Tick
    \/ \E c \in Clients : Alone(c) /\ ReadStep(c)

SpecRead == InitRead /\ [][NextRead]_vars

\* C31: exists and report are read-only: whatever the store holds and
\* whatever the arguments, a call leaves every table as it was, and leaves
\* the caller's session as it was unless the four-hour check ended it; an
\* answered exists is true iff a TeamEvaluation row of that assignment,
\* that team and the calling student is in the store.
C31_ReadsAreReadOnly ==
    [][\A c \in Clients :
         (Begins(c, "check") \/ Begins(c, "report"))
           => /\ Completes(c)
              /\ store' = store
              /\ cookie' = cookie
              /\ resp'[c].msg # "Session expired" => session' = session
              /\ (inp'[c].op = "check" /\ resp'[c].status = 200)
                   => resp'[c].exists =
                        (Bundle(inp'[c].args.assignment_id,
                                inp'[c].args.team_id,
                                session[c].user_id) # {})]_vars

\* student 1 asked whether it evaluated team 3 and was told it did
C31_Witness ==
    \E c \in Clients :
      /\ resp[c].op = "check"
      /\ resp[c].status = 200
      /\ resp[c].exists
      /\ Bundle(inp[c].args.assignment_id, inp[c].args.team_id,
                session[c].user_id) # {}

\* the same instant as date_str, written with the UTC offset 0
InUTC(date_str) == <<date_str[1] - date_str[2], 0>>

\* C32: expiry comparisons are free of timezone ambiguity: at every time a
\* check can be made, the expired / not expired outcome for each stored
\* AccessToken.expires_at and access_expires_at is that of comparing the
\* two instants, and is the same for the same instant written in UTC.
C32_ExpiryByInstant ==
    /\ \A t \in access_tokens :
         /\ TokenExpired(parse_iso_datetime(t.expires_at))
              <=> now > Instant(parse_iso_datetime(t.expires_at))
         /\ TokenExpired(parse_iso_datetime(t.expires_at))
              <=> TokenExpired(parse_iso_datetime(InUTC(t.expires_at)))
    /\ \A s \in students :
         s.access_expires_at # NoTime
           => /\ AccessExpired(s) <=> PastExpiry(s)
              /\ AccessExpired(s)
                   <=> AccessExpired([s EXCEPT !.access_expires_at =
                                         InUTC(s.access_expires_at)])

\* the handler that entered the name loop goes on running until it returns
SpecAllocFair == SpecAlloc /\ WF_vars(NextAlloc)

\* the number of Student rows of team T
RowsOf(T) == Cardinality({s \in students : s.team_id = T})

\* C33: allocate(N, T) always terminates: with k Student rows in team T and
\* no concurrent insert, a call in the name loop is about to make at most
\* its (k + 1)-th lookup, and every call in the loop leaves it.
C33_AllocateTerminates ==
    /\ [](\A c \in Clients :
            req[c].pc = "alloc" => req[c].counter <= RowsOf(req[c].team_id) + 1)
    /\ \A c \in Clients : (req[c].pc = "alloc") ~> (req[c].pc # "alloc")

\* the loop returned at its last possible lookup: every name probed before
\* was in use
C33_Witness ==
    \E c \in Clients :
       /\ req[c].pc = "join_new_insert"
       /\ req[c].counter = MaxSuffix + 1
       /\ \A n \in 1..MaxSuffix : Suffixed("Zoe", n) \in NamesOf(2)

\* this step lets c's select through to a student session
SelectAdmits(c) ==
    /\ Begins(c, "select")
    /\ \/ resp'[c] = Response("select", 200, "student_dashboard")
       \/ req'[c].pc = "select_update"

\* C34: every student session is backed by a credential check for that
\* Student by that client; in particular a select establishes no session
\* for a client that has resolved no name and passcode before, and a select
\* that follows a candidate list establishes a session only for a student_id
\* of that list.
C34_SessionBackedByCredentials ==
    [][\A c \in Clients :
         SelectAdmits(c)
           => /\ inp[c] # Pending
              /\ (resp[c].op = "login" /\ resp[c].msg = "multiple_classes")
                   => inp'[c].args.student_id
                         \in {k.student_id : k \in resp[c].classes}]_vars

(***************************************************************************)
(* SpecAdmit: admissions.  The teacher is logged in on client c1 and adds  *)
(* students to teams of either class; joins carry the link of class CS101  *)
(* and name a team of CS101, a team of CS102 or no team at all.            *)
(***************************************************************************)
AdmitTexts == {<<<<"Zoe", "Ray", "S777">>>>}

AdmitTeams == {3, 5}

\* team 2 is of class 1; team 5 is of class 2 and holds the pre-added S123
AdmitJoinData ==
    {[student_name |-> "Zoe", student_id |-> "", team_id |-> 0,
      is_guest |-> TRUE]} \cup
    {[student_name |-> "Zoe Ray", student_id |-> sid, team_id |-> t,
      is_guest |-> FALSE] : sid \in {"S123", "S999"}, t \in {2, 5, 77}}

InitAdmit ==
    /\ season = "autumn"
    /\ InitStore(TokenDev)
    /\ nextSecret = 4
    /\ now = 0
    /\ storeUTC = FALSE
    /\ access_tokens = {LinkIssuedAt0}
    /\ session = [c \in Clients |->
          IF c = "c1" THEN TeacherSession(CHOOSE t \in InitTeachers : TRUE)
          ELSE NoSession]
    /\ cookie = [c \in Clients |-> NoToken]
    /\ req = [c \in Clients |-> Idle]
    /\ resp = [c \in Clients |-> Pending]
    /\ hist = <<>>
    /\ nreq = MaxAdmitRequests
    /\ inp = [c \in Clients |-> Pending]

AdmitStep(c) ==
    \/ \E team_id \in AdmitTeams, text \in AdmitTexts :
          add_students_to_team(c, team_id, text)
    \/ add_students_to_team_insert(c)
    \/ get_unique_student_name(c)
    \/ \E data \in AdmitJoinData : join_class(c, 3, data)
    \/ join_class_guest_insert(c)
    \/ join_class_new_insert(c)
    \/ join_class_pre_added_update(c)

NextAdmit == \E c \in Clients : Alone(c) /\ AdmitStep(c)

SpecAdmit == InitAdmit /\ [][NextAdmit]_vars

\* the class of the link a join was made with
TokenClass(token) == {t.class_id : t \in {x \in access_tokens : x.token = token}}

\* C35: class/team consistency of admissions: each Student's team belongs
\* to the Student's class, and a join with a link of class C creates or
\* updates only Student rows of class C, whatever team id and student id
\* the caller supplies.
C35_AdmissionsWithinClass ==
    /\ [](\A s \in students : \A t \in teams :
            t.id = s.team_id => t.class_id = s.class_id)
    /\ [][\A c \in Clients :
            (req[c].pc # "idle" /\ inp[c].op = "join")
              => \A s \in students' \ students :
                   s.class_id \in TokenClass(inp[c].args.token)]_vars

\* C36: team names are unique within a class: no class has two teams of one
\* name, in particular not two named "Guests" or two named "Teachers",
\* under any interleaving of the requests that create teams.
C36_TeamNamesUniquePerClass ==
    \A t, u \in teams :
       (t.class_id = u.class_id /\ t.name = u.name) => t.id = u.id

\* the rows written by the teacher-proxy bootstrap
IsProxyRow(s) == s.student_id = "teacher"

\* C37: a teacher-proxy Student row is never the principal of a student
\* session: no student login, guest login or select, with any name,
\* passcode and cookie, leaves a role=student session whose user_id is the
\* id of a row created by the teacher-proxy bootstrap.
C37_ProxyNeverStudentPrincipal ==
    \A c \in Clients :
       session[c].role = "student"
          => \A s \in students : s.id = session[c].user_id => ~IsProxyRow(s)

\* the class of the assignment a TeamEvaluation row belongs to
AssignmentClass(e) ==
    {a.class_id : a \in {x \in assignments : x.id = e.assignment_id}}

\* C38: evaluations stay within one class: for every TeamEvaluation row the
\* evaluated team and the evaluator Student belong to the class of the
\* row's assignment, and the evaluated student of each of its
\* MemberEvaluations is a member of the evaluated team, whatever ids the
\* submits carried.
C38_EvaluationsWithinClass ==
    \A e \in team_evaluations :
       /\ \A t \in teams :
            t.id = e.evaluated_team_id => t.class_id \in AssignmentClass(e)
       /\ \A s \in students :
            s.id = e.evaluator_student_id => s.class_id \in AssignmentClass(e)
       /\ \A m \in MemberRows(e.id) :
            \E s \in students : /\ s.id = m.evaluated_student_id
                                /\ s.team_id = e.evaluated_team_id

====
